---- MODULE Spec2Model ----
(***************************************************************************)
(* Caching and request coalescing of the lyrics and translation services.  *)
(*                                                                         *)
(* Every asynchronous function is cut at its await points: one action is   *)
(* the code that runs between two awaits on the single event loop.         *)
(***************************************************************************)
EXTENDS Integers, Sequences, FiniteSets, TLC

(***************************************************************************)
(* Bounds                                                                  *)
(***************************************************************************)
MaxCallers == 2

MaxClock == 3

Callers == 1..MaxCallers

(***************************************************************************)
(* Values                                                                  *)
(***************************************************************************)
Null == [kind |-> "null"]

Song1 == [title |-> "t1", artist |-> "a1", album |-> "al1", duration |-> "200",
          songId |-> "", videoId |-> "v1", subtitle |-> TRUE]

Songs == {Song1}

Actions == {"romanize"}

Langs == {"en"}

PROVIDERS == <<"kpoe", "customKpoe", "lrclib", "local", "gemini", "google">>

CACHE_EXPIRY == [aggressive |-> 2, moderate |-> 1]

Strategies == {"aggressive", "moderate", "none"}

ProviderSettings == {[lyricsProvider |-> "local", customKpoeUrl |-> ""]}

SettingsChoices == {[cacheStrategy |-> st, lyricsProvider |-> p.lyricsProvider,
                     customKpoeUrl |-> p.customKpoeUrl] :
                        st \in Strategies, p \in ProviderSettings}

StoreOutcomes == {"ok", "error"}

EmptyDoc == [src |-> "empty"]

CachedDoc == [src |-> "kpoe", fetchedAt |-> 0]

LocalDoc == [src |-> "localfile"]

(***************************************************************************)
(* Pure functions                                                          *)
(***************************************************************************)
CreateCacheKey(songInfo) ==
    <<songInfo.title, songInfo.artist, songInfo.album, songInfo.duration>>

TranslationCacheKey(songInfo, action, targetLang) ==
    CreateCacheKey(songInfo) \o <<action, targetLang>>

LyricsKeys == {CreateCacheKey(s) : s \in Songs}

TransKeys == {TranslationCacheKey(s, a, l) : s \in Songs, a \in Actions, l \in Langs}

AllKeys == LyricsKeys \cup TransKeys

IsLyricsProvider(p) == p # "google" /\ p # "gemini"

InSeq(x, s) == \E i \in 1..Len(s) : s[i] = x

GetProviderOrder_Unfiltered(settings) ==
    LET allProviders == PROVIDERS
        preferredProvider == IF InSeq(settings.lyricsProvider, allProviders)
                             THEN settings.lyricsProvider
                             ELSE "kpoe"
        NotPreferred(p) == p # preferredProvider
    IN  <<preferredProvider>> \o SelectSeq(allProviders, NotPreferred)

GetProviderOrder(settings) ==
    LET allProviders == SelectSeq(PROVIDERS, IsLyricsProvider)
        preferredProvider == IF InSeq(settings.lyricsProvider, allProviders)
                             THEN settings.lyricsProvider
                             ELSE "kpoe"
        NotPreferred(p) == p # preferredProvider
    IN  <<preferredProvider>> \o SelectSeq(allProviders, NotPreferred)

IsEmptyLyrics(lyrics) == lyrics = Null \/ lyrics = EmptyDoc

\* checkLocalLyrics: the record of the local collection that matches the song
\* (by songId, else by title and artist), as {lyrics, version}, or Null.
LocalMatch(local, songInfo) ==
    LET direct == {r \in local : songInfo.songId # "" /\ r.songId = songInfo.songId}
        byName == {r \in local : r.title = songInfo.title /\ r.artist = songInfo.artist}
        pick(S) == CHOOSE r \in S : TRUE
        found == IF direct # {} THEN pick(direct)
                 ELSE IF byName # {} THEN pick(byName) ELSE Null
    IN  IF found = Null THEN Null
        ELSE [lyrics |-> found.lyrics,
              version |-> IF found.timestamp # 0 THEN found.timestamp ELSE found.songId]

(***************************************************************************)
(* State                                                                   *)
(***************************************************************************)
VARIABLES
    clock,            \* Date.now()
    settings,         \* SettingsManager: cacheStrategy, lyricsProvider, customKpoeUrl
    cache,            \* state: memory cache, key -> entry
    ongoingFetches,   \* state: in-flight registry, key -> id of the pending operation
    lyricsDB,         \* persistent lyrics collection, key -> record
    translationsDB,   \* persistent translation collection, key -> record
    localLyricsDB,    \* persistent local lyrics collection, set of records
    call,             \* per caller: the getOrFetch invocation
    fetch,            \* per caller: the fetchNewLyrics operation it started
    trans,            \* per caller: the performAndCacheTranslation operation it started
    initialDB,        \* the persistent collections as they were at start (never changes)
    tr,               \* the TranslationService.translate invocation
    rom,              \* the TranslationService.romanize invocation
    gem,              \* the GeminiRomanizer.romanize invocation
    page,             \* the content script: its variables and its invocations
    store,            \* one DatabaseManager over its object store
    handler           \* the commands of MessageHandler.handle

\* The variables of the coalescing services and of the transformation engines.
serviceVars == <<clock, settings, cache, ongoingFetches, lyricsDB, translationsDB,
                 localLyricsDB, call, fetch, trans, initialDB>>

engineVars == <<tr, rom, gem, page, store, handler>>

vars == <<serviceVars, engineVars>>

\* What an action of one engine leaves alone.
exceptTr == <<serviceVars, rom, gem, page, store, handler>>

exceptRom == <<serviceVars, tr, gem, page, store, handler>>

exceptGem == <<serviceVars, tr, rom, page, store, handler>>

exceptPage == <<serviceVars, tr, rom, gem, store, handler>>

exceptStore == <<serviceVars, tr, rom, gem, page, handler>>

exceptHandler == <<tr, rom, gem, page, store>>

\* No invocation yet.
NoTranslate == [pc |-> "idle"]

NoRomanize == [pc |-> "idle"]

NoGemini == [pc |-> "idle"]

\* Nothing is displayed.
NoDisplay == [kind |-> "none", by |-> 0, song |-> "", mode |-> "none"]

\* The content script after load (part_003 lines 5-14); "" stands for null.
NoPage == [currentFetchMediaId |-> "", currentDisplayMode |-> "none",
           lastProcessedDisplayMode |-> "none", lastKnownSongInfo |-> "",
           lyricsFetchDebounceTimer |-> FALSE,
           lastRequestedSongKey |-> "", invocations |-> <<>>, display |-> NoDisplay]

StoreKeys == {"k1", "k2"}

\* An object store without a record (0: no record under the key) and without
\* a call.
NoStore == [data |-> [k \in StoreKeys |-> 0], ops |-> <<>>]

\* No command has arrived, no write request is pending, no caller was answered.
NoMessages == [msgs |-> <<>>, requests |-> <<>>, replies |-> [c \in Callers |-> <<>>]]

EnginesIdle ==
    /\ tr = NoTranslate /\ rom = NoRomanize /\ gem = NoGemini
    /\ page = NoPage /\ store = NoStore /\ handler = NoMessages

(***************************************************************************)
(* Initial state: a freshly started process (empty memory state) over      *)
(* whatever the persistent collections hold from earlier sessions.         *)
(***************************************************************************)
IdleCall == [pc |-> "idle", mode |-> "lyrics", song |-> Song1, force |-> FALSE,
             action |-> "romanize", lang |-> "en",
             dbResult |-> Null, waitsOn |-> 0, result |-> Null,
             consulted |-> <<>>, source |-> "none",
             originalVersion |-> Null, served |-> Null]

NoFetch == [pc |-> "none", key |-> <<>>, song |-> Song1, force |-> FALSE,
            idx |-> 0, calls |-> <<>>, answers |-> <<>>, result |-> Null]

NoTrans == [pc |-> "none", key |-> <<>>, base |-> Null, result |-> Null]

InitialLyricsRecords ==
    {Null, [lyrics |-> CachedDoc, version |-> 0, timestamp |-> 0, duration |-> "200"]}

InitialLocalStores ==
    {{}, {[songId |-> "L1", title |-> "t1", artist |-> "a1",
           lyrics |-> LocalDoc, timestamp |-> -1]}}

InitCommon ==
    /\ clock = 1
    /\ settings \in SettingsChoices
    /\ cache = [k \in AllKeys |-> Null]
    /\ ongoingFetches = [k \in AllKeys |-> 0]
    /\ lyricsDB \in [LyricsKeys -> InitialLyricsRecords]
    /\ localLyricsDB \in InitialLocalStores
    /\ call = [c \in Callers |-> IdleCall]
    /\ fetch = [c \in Callers |-> NoFetch]
    /\ trans = [c \in Callers |-> NoTrans]
    /\ EnginesIdle

(***************************************************************************)
(* state: memory cache and in-flight registry                              *)
(***************************************************************************)
HasCached(key) == cache[key] # Null

HasOngoingFetch(key) == ongoingFetches[key] # 0

(***************************************************************************)
(* LyricsService.getOrFetch                                                *)
(***************************************************************************)
Log(rec, stage) == [rec EXCEPT !.consulted = Append(@, stage)]

Finish(rec, res, src) ==
    [rec EXCEPT !.pc = "lyricsDone", !.result = res, !.source = src]

Fail(rec, msg) ==
    [rec EXCEPT !.pc = "lyricsDone", !.result = [error |-> msg], !.source = "error"]

IsError(res) == "error" \in DOMAIN res

\* Lines 64-71: join the pending fetch of the key, or start fetchNewLyrics and
\* register it.
InFlightStep(c, rec) ==
    LET key == CreateCacheKey(rec.song)
        seen == Log(rec, "inflight")
    IN  IF HasOngoingFetch(key)
        THEN /\ call' = [call EXCEPT ![c] =
                    [seen EXCEPT !.pc = "awaitFetch", !.waitsOn = ongoingFetches[key]]]
             /\ UNCHANGED <<fetch, ongoingFetches>>
        ELSE /\ call' = [call EXCEPT ![c] =
                    [Log(seen, "provider") EXCEPT !.pc = "awaitFetch", !.waitsOn = c]]
             /\ fetch' = [fetch EXCEPT ![c] =
                    [NoFetch EXCEPT !.pc = "settings", !.key = key,
                                    !.song = rec.song, !.force = rec.force]]
             /\ ongoingFetches' = [ongoingFetches EXCEPT ![key] = c]

StartLyrics_IgnoreForce(c, rec) ==
    LET key == CreateCacheKey(rec.song)
    IN  IF HasCached(key)
        THEN /\ call' = [call EXCEPT ![c] =
                    Finish(Log(rec, "memory"), cache[key], "memory")]
             /\ UNCHANGED <<fetch, ongoingFetches>>
        ELSE IF ~rec.force
        THEN /\ call' = [call EXCEPT ![c] =
                    [Log(Log(rec, "memory"), "persistent") EXCEPT !.pc = "dbSettings"]]
             /\ UNCHANGED <<fetch, ongoingFetches>>
        ELSE InFlightStep(c, rec)

\* Lines 41-51 (and 64-71 when forceReload): the synchronous start of the call.
StartLyrics(c, rec) ==
    LET key == CreateCacheKey(rec.song)
    IN  IF ~rec.force
        THEN IF HasCached(key)
             THEN /\ call' = [call EXCEPT ![c] =
                         Finish(Log(rec, "memory"), cache[key], "memory")]
                  /\ UNCHANGED <<fetch, ongoingFetches>>
             ELSE /\ call' = [call EXCEPT ![c] =
                         [Log(Log(rec, "memory"), "persistent") EXCEPT !.pc = "dbSettings"]]
                  /\ UNCHANGED <<fetch, ongoingFetches>>
        ELSE InFlightStep(c, rec)

\* Callers are interchangeable: they are numbered in the order of their calls.
MayCall(c) == call[c].pc = "idle" /\ \A d \in Callers : d < c => call[d].pc # "idle"

FetchLyrics(c) ==
    /\ MayCall(c)
    /\ \E s \in Songs, f \in BOOLEAN :
          StartLyrics(c, [IdleCall EXCEPT !.song = s, !.force = f])
    /\ UNCHANGED <<clock, settings, cache, lyricsDB, translationsDB, localLyricsDB,
                   trans, initialDB, engineVars>>

\* Lines 76-82: the settings arrive; strategy none is a miss without a read.
GetFromDBSettings(c) ==
    /\ call[c].pc = "dbSettings"
    /\ call' = [call EXCEPT ![c].pc =
            IF settings.cacheStrategy = "none" THEN "local" ELSE "dbGet"]
    /\ UNCHANGED <<clock, settings, cache, ongoingFetches, lyricsDB, translationsDB,
                   localLyricsDB, fetch, trans, initialDB, engineVars>>

\* Line 82: lyricsDB.get settles.
LyricsDBGet(c) ==
    /\ call[c].pc = "dbGet"
    /\ \E o \in StoreOutcomes :
          call' = [call EXCEPT ![c] =
              IF o = "ok"
              THEN [call[c] EXCEPT !.pc = "dbCheck",
                                   !.dbResult = lyricsDB[CreateCacheKey(call[c].song)]]
              ELSE Fail(@, "StoreError")]
    /\ UNCHANGED <<clock, settings, cache, ongoingFetches, lyricsDB, translationsDB,
                   localLyricsDB, fetch, trans, initialDB, engineVars>>

\* Date.now(): the clock never runs backwards; it may have advanced by any
\* amount since it was last read.
Now == clock..MaxClock

Strategy(st) == IF st \in DOMAIN CACHE_EXPIRY THEN st ELSE "aggressive"

IsFresh_Inclusive(age, expirationTime) == age <= expirationTime

IsFresh(age, expirationTime) == age < expirationTime

\* Lines 84-97 and 52-55: the record is returned while fresh, else deleted.
GetFromDBCheck(c) ==
    /\ call[c].pc = "dbCheck"
    /\ LET rec == [call[c] EXCEPT !.dbResult = Null]
           key == CreateCacheKey(rec.song)
           result == call[c].dbResult
           expirationTime == CACHE_EXPIRY[Strategy(settings.cacheStrategy)]
       IN  IF result = Null
           THEN /\ call' = [call EXCEPT ![c] = [rec EXCEPT !.pc = "local"]]
                /\ UNCHANGED <<cache, clock>>
           ELSE \E now \in Now :
                /\ clock' = now
                /\ IF IsFresh(now - result.timestamp, expirationTime)
                   THEN LET dbResult == [lyrics |-> result.lyrics,
                                         version |-> result.version]
                        IN  /\ cache' = [cache EXCEPT ![key] = dbResult]
                            /\ call' = [call EXCEPT ![c] =
                                   Finish(rec, dbResult, "persistent")]
                   ELSE /\ call' = [call EXCEPT ![c] = [rec EXCEPT !.pc = "dbDelete"]]
                        /\ UNCHANGED cache
    /\ UNCHANGED <<settings, ongoingFetches, lyricsDB, translationsDB,
                   localLyricsDB, fetch, trans, initialDB, engineVars>>

\* Line 97: lyricsDB.delete settles.
LyricsDBDelete(c) ==
    /\ call[c].pc = "dbDelete"
    /\ \E o \in StoreOutcomes :
          IF o = "ok"
          THEN /\ lyricsDB' = [lyricsDB EXCEPT ![CreateCacheKey(call[c].song)] = Null]
               /\ call' = [call EXCEPT ![c].pc = "local"]
          ELSE /\ call' = [call EXCEPT ![c] = Fail(@, "StoreError")]
               /\ UNCHANGED lyricsDB
    /\ UNCHANGED <<clock, settings, cache, ongoingFetches, translationsDB,
                   localLyricsDB, fetch, trans, initialDB, engineVars>>

\* Lines 57-71: checkLocalLyrics settles; a local hit is returned, a miss goes on
\* to the in-flight step.
CheckLocalLyrics(c) ==
    /\ call[c].pc = "local"
    /\ \E o \in StoreOutcomes :
          LET rec == Log(call[c], "local")
              key == CreateCacheKey(rec.song)
              localResult == LocalMatch(localLyricsDB, rec.song)
          IN  IF o = "error"
              THEN /\ call' = [call EXCEPT ![c] = Fail(rec, "StoreError")]
                   /\ UNCHANGED <<cache, fetch, ongoingFetches>>
              ELSE IF localResult # Null
              THEN /\ cache' = [cache EXCEPT ![key] = localResult]
                   /\ call' = [call EXCEPT ![c] = Finish(rec, localResult, "local")]
                   /\ UNCHANGED <<fetch, ongoingFetches>>
              ELSE /\ InFlightStep(c, rec)
                   /\ UNCHANGED cache
    /\ UNCHANGED <<clock, settings, lyricsDB, translationsDB, localLyricsDB,
                   trans, initialDB, engineVars>>

\* Line 71: the caller's promise follows the fetch promise it returned, so the
\* call has settled once that operation has.
Settled(op) == op.pc \in {"fulfilled", "rejected"}

LyricsSettled(c) ==
    \/ call[c].pc = "lyricsDone"
    \/ call[c].pc = "awaitFetch" /\ Settled(fetch[call[c].waitsOn])

LyricsResult(c) ==
    IF call[c].pc = "lyricsDone" THEN call[c].result ELSE fetch[call[c].waitsOn].result

LyricsSource(c) ==
    IF call[c].pc = "lyricsDone" THEN call[c].source
    ELSE IF IsError(LyricsResult(c)) THEN "error" ELSE "fetch"

(***************************************************************************)
(* LyricsService.fetchNewLyrics                                            *)
(***************************************************************************)
Doc(src) == [src |-> src]

\* What one provider of the chain can answer: a document, nothing, or (the
\* local provider, whose store read is not caught) an exception.
ProviderOutcomes(provider, songInfo) ==
    CASE provider = "kpoe" ->
            {[throws |-> FALSE, lyrics |-> Doc("kpoe")], [throws |-> FALSE, lyrics |-> Null]}
      [] provider = "customKpoe" ->
            IF settings.customKpoeUrl # ""
            THEN {[throws |-> FALSE, lyrics |-> Doc("customKpoe")],
                  [throws |-> FALSE, lyrics |-> Null]}
            ELSE {[throws |-> FALSE, lyrics |-> Null]}
      [] provider = "lrclib" ->
            {[throws |-> FALSE, lyrics |-> Doc("lrclib")],
             [throws |-> FALSE, lyrics |-> EmptyDoc]}
      [] provider = "local" ->
            LET localResult == LocalMatch(localLyricsDB, songInfo)
            IN  {[throws |-> FALSE,
                  lyrics |-> IF localResult = Null THEN Null ELSE localResult.lyrics],
                 [throws |-> TRUE, lyrics |-> Null]}
      [] OTHER -> {[throws |-> FALSE, lyrics |-> Null]}

SubtitleOutcomes == {Doc("youtube"), Null}

\* What an answer was, as the loop of lines 149-161 tells them apart.
Answer(out) ==
    IF out.throws THEN "throws"
    ELSE IF IsEmptyLyrics(out.lyrics) THEN "empty" ELSE "lyrics"

\* Lines 186-188 with the settlement of the promise: the finally block removes
\* the registry entry of the key.
SettleFetch(c, op, pc, res) ==
    /\ fetch' = [fetch EXCEPT ![c] = [op EXCEPT !.pc = pc, !.result = res]]
    /\ ongoingFetches' = [ongoingFetches EXCEPT ![op.key] = 0]

WritesThrough_Always(st) == TRUE

\* Line 174: is the fetched document written to the persistent collection?
WritesThrough(st) == st # "none"

\* Lines 163-184: stamp the version, write through the memory cache and (unless
\* the strategy is none) the persistent collection.
StoreFetched(c, op, lyrics) ==
    \E fetchedAt \in Now :
    LET lyricsWithMeta == [src |-> lyrics.src, fetchedAt |-> fetchedAt]
        result == [lyrics |-> lyricsWithMeta, version |-> fetchedAt]
    IN  /\ clock' = fetchedAt
        /\ cache' = [cache EXCEPT ![op.key] = result]
        /\ IF WritesThrough(settings.cacheStrategy)
           THEN /\ fetch' = [fetch EXCEPT ![c] =
                       [op EXCEPT !.pc = "dbSet", !.result = result]]
                /\ UNCHANGED ongoingFetches
           ELSE SettleFetch(c, op, "fulfilled", result)

\* Lines 141-150: the settings arrive, the chain is built, the first provider
\* is called.
FetchSettings(c) ==
    /\ fetch[c].pc = "settings"
    /\ fetch' = [fetch EXCEPT ![c].pc = "provider", ![c].idx = 1]
    /\ UNCHANGED <<clock, settings, cache, ongoingFetches, lyricsDB, translationsDB,
                   localLyricsDB, call, trans, initialDB, engineVars>>

HasSubtitleFallback_Always(songInfo) == TRUE

\* Line 155: does the song carry what the subtitle fallback needs?
HasSubtitleFallback(songInfo) == songInfo.videoId # "" /\ songInfo.subtitle

\* What the loop of lines 149-161 does with the answer of the provider at idx.
ChainStep(c, op, out) ==
    LET providers == GetProviderOrder(settings)
    IN  IF out.throws
        THEN /\ SettleFetch(c, op, "rejected", [error |-> "ProviderError"])
             /\ UNCHANGED <<cache, clock>>
        ELSE IF ~IsEmptyLyrics(out.lyrics)
        THEN StoreFetched(c, op, out.lyrics)
        ELSE IF op.idx < Len(providers)
        THEN /\ fetch' = [fetch EXCEPT ![c] = [op EXCEPT !.idx = @ + 1]]
             /\ UNCHANGED <<cache, clock, ongoingFetches>>
        ELSE IF HasSubtitleFallback(op.song)
        THEN /\ fetch' = [fetch EXCEPT ![c] = [op EXCEPT !.pc = "subtitle"]]
             /\ UNCHANGED <<cache, clock, ongoingFetches>>
        ELSE /\ SettleFetch(c, op, "rejected", [error |-> "NotFound"])
             /\ UNCHANGED <<cache, clock>>

\* Lines 149-161: one provider of the chain answers.
ProviderReturn(c) ==
    /\ fetch[c].pc = "provider"
    /\ LET providers == GetProviderOrder(settings)
           provider == providers[fetch[c].idx]
       IN  \E out \in ProviderOutcomes(provider, fetch[c].song) :
              ChainStep(c, [fetch[c] EXCEPT !.calls = Append(@, provider),
                                            !.answers = Append(@, Answer(out))], out)
    /\ UNCHANGED <<settings, lyricsDB, translationsDB, localLyricsDB,
                   call, trans, initialDB, engineVars>>

\* Lines 155-161: the subtitle fallback answers.
SubtitleReturn(c) ==
    /\ fetch[c].pc = "subtitle"
    /\ \E lyrics \in SubtitleOutcomes :
          LET op == [fetch[c] EXCEPT !.calls = Append(@, "youtube"),
                                     !.answers = Append(@, Answer([throws |-> FALSE,
                                                                   lyrics |-> lyrics]))]
          IN  IF IsEmptyLyrics(lyrics)
              THEN /\ SettleFetch(c, op, "rejected", [error |-> "NotFound"])
                   /\ UNCHANGED <<cache, clock>>
              ELSE StoreFetched(c, op, lyrics)
    /\ UNCHANGED <<settings, lyricsDB, translationsDB, localLyricsDB,
                   call, trans, initialDB, engineVars>>

\* Lines 175-188: lyricsDB.set settles.
LyricsDBSet(c) ==
    /\ fetch[c].pc = "dbSet"
    /\ \E o \in StoreOutcomes :
          LET op == fetch[c]
          IN  IF o = "ok"
              THEN /\ lyricsDB' = [lyricsDB EXCEPT ![op.key] =
                          [lyrics |-> op.result.lyrics, version |-> op.result.version,
                           timestamp |-> op.result.version, duration |-> op.song.duration]]
                   /\ SettleFetch(c, op, "fulfilled", op.result)
              ELSE /\ SettleFetch(c, op, "rejected", [error |-> "StoreError"])
                   /\ UNCHANGED lyricsDB
    /\ UNCHANGED <<clock, settings, cache, translationsDB, localLyricsDB,
                   call, trans, initialDB, engineVars>>

InitLyrics ==
    /\ InitCommon
    /\ translationsDB = [k \in TransKeys |-> Null]
    /\ initialDB = [lyrics |-> lyricsDB, translations |-> translationsDB]

NextLyrics ==
    \E c \in Callers :
          \/ FetchLyrics(c)
          \/ GetFromDBSettings(c)
          \/ LyricsDBGet(c)
          \/ GetFromDBCheck(c)
          \/ LyricsDBDelete(c)
          \/ CheckLocalLyrics(c)
          \/ FetchSettings(c)
          \/ ProviderReturn(c)
          \/ SubtitleReturn(c)
          \/ LyricsDBSet(c)

SpecLyrics == InitLyrics /\ [][NextLyrics]_vars

(***************************************************************************)
(* TranslationService.getOrFetch                                           *)
(***************************************************************************)
TKey(rec) == TranslationCacheKey(rec.song, rec.action, rec.lang)

TFinish(rec, res, src) ==
    [rec EXCEPT !.pc = "tDone", !.result = res, !.source = src, !.dbResult = Null,
                !.waitsOn = 0]

VersionMatches_Any(recordVersion, originalVersion) == TRUE

\* Lines 183 and 190: is the record derived from this version of the lyrics?
VersionMatches(recordVersion, originalVersion) == recordVersion = originalVersion

\* Line 102: does this caller join a pending operation of its key?
Joins(forceReload, key) == ~forceReload /\ HasOngoingFetch(key)

\* Lines 102-114: join the pending operation of the key, or start
\* performAndCacheTranslation and register it.
TInFlightStep(c, rec) ==
    LET key == TKey(rec)
    IN  IF Joins(rec.force, key)
        THEN /\ call' = [call EXCEPT ![c] =
                    [rec EXCEPT !.pc = "tJoined", !.waitsOn = ongoingFetches[key]]]
             /\ UNCHANGED <<trans, ongoingFetches>>
        ELSE /\ call' = [call EXCEPT ![c] = [rec EXCEPT !.pc = "tAwait", !.waitsOn = c]]
             /\ trans' = [trans EXCEPT ![c] =
                    [pc |-> "perform", key |-> key, base |-> rec.result, result |-> Null]]
             /\ ongoingFetches' = [ongoingFetches EXCEPT ![key] = c]

\* Lines 87-91: the call starts by resolving the base lyrics.
TranslateLyrics(c) ==
    /\ MayCall(c)
    /\ \E s \in Songs, f \in BOOLEAN, a \in Actions, l \in Langs :
          StartLyrics(c, [IdleCall EXCEPT !.mode = "trans", !.song = s, !.force = f,
                                          !.action = a, !.lang = l])
    /\ UNCHANGED <<clock, settings, cache, lyricsDB, translationsDB, localLyricsDB,
                   trans, initialDB, engineVars>>

\* Lines 90-104 and 181-188: the base lyrics have settled; the memory cache is
\* checked against their version.
AfterLyrics(c) ==
    /\ call[c].mode = "trans"
    /\ call[c].pc \in {"lyricsDone", "awaitFetch"}
    /\ LyricsSettled(c)
    /\ LET base == LyricsResult(c)
           rec == [call[c] EXCEPT !.result = base, !.waitsOn = 0,
                                  !.originalVersion =
                                      IF IsError(base) THEN Null ELSE base.version]
           key == TKey(rec)
       IN  IF IsError(base)
           THEN /\ call' = [call EXCEPT ![c] = TFinish(rec, base, "error")]
                /\ UNCHANGED <<trans, ongoingFetches>>
           ELSE IF IsEmptyLyrics(base.lyrics)
           THEN /\ call' = [call EXCEPT ![c] =
                       TFinish(rec, [error |-> "Empty"], "error")]
                /\ UNCHANGED <<trans, ongoingFetches>>
           ELSE IF rec.force
           THEN TInFlightStep(c, rec)
           ELSE IF HasCached(key) /\ VersionMatches(cache[key].originalVersion, base.version)
           THEN /\ call' = [call EXCEPT ![c] =
                       TFinish([rec EXCEPT !.served = cache[key].originalVersion],
                               cache[key].translatedLyrics, "memory")]
                /\ UNCHANGED <<trans, ongoingFetches>>
           ELSE /\ call' = [call EXCEPT ![c] = [rec EXCEPT !.pc = "tDbGet"]]
                /\ UNCHANGED <<trans, ongoingFetches>>
    /\ UNCHANGED <<clock, settings, cache, lyricsDB, translationsDB, localLyricsDB,
                   fetch, initialDB, engineVars>>

\* Line 188: translationsDB.get settles.
TransDBGet(c) ==
    /\ call[c].pc = "tDbGet"
    /\ \E o \in StoreOutcomes :
          call' = [call EXCEPT ![c] =
              IF o = "ok"
              THEN [call[c] EXCEPT !.pc = "tDbCheck",
                                   !.dbResult = translationsDB[TKey(call[c])]]
              ELSE TFinish(call[c], [error |-> "StoreError"], "error")]
    /\ UNCHANGED <<clock, settings, cache, ongoingFetches, lyricsDB, translationsDB,
                   localLyricsDB, fetch, trans, initialDB, engineVars>>

\* Lines 189-201 and 99-114: a record of the right version is returned, a stale
\* one is deleted from the collection, a miss goes on to the in-flight step.
GetCachedCheck(c) ==
    /\ call[c].pc = "tDbCheck"
    /\ LET rec == [call[c] EXCEPT !.dbResult = Null]
           key == TKey(rec)
           dbCached == call[c].dbResult
       IN  IF dbCached = Null
           THEN /\ TInFlightStep(c, rec)
                /\ UNCHANGED cache
           ELSE IF VersionMatches(dbCached.originalVersion, rec.result.version)
           THEN /\ cache' = [cache EXCEPT ![key] =
                       [translatedLyrics |-> dbCached.translatedLyrics,
                        originalVersion |-> dbCached.originalVersion]]
                /\ call' = [call EXCEPT ![c] =
                       TFinish([rec EXCEPT !.served = dbCached.originalVersion],
                               dbCached.translatedLyrics, "db")]
                /\ UNCHANGED <<trans, ongoingFetches>>
           ELSE /\ call' = [call EXCEPT ![c].pc = "tDbDelete"]
                /\ UNCHANGED <<cache, trans, ongoingFetches>>
    /\ UNCHANGED <<clock, settings, lyricsDB, translationsDB, localLyricsDB,
                   fetch, initialDB, engineVars>>

\* Lines 197-201 and 99-114: translationsDB.delete settles; the cache check
\* ends as a miss.
TransDBDelete(c) ==
    /\ call[c].pc = "tDbDelete"
    /\ \E o \in StoreOutcomes :
          IF o = "ok"
          THEN /\ translationsDB' = [translationsDB EXCEPT ![TKey(call[c])] = Null]
               /\ TInFlightStep(c, [call[c] EXCEPT !.dbResult = Null])
          ELSE /\ call' = [call EXCEPT ![c] =
                      TFinish(call[c], [error |-> "StoreError"], "error")]
               /\ UNCHANGED <<translationsDB, trans, ongoingFetches>>
    /\ UNCHANGED <<clock, settings, cache, lyricsDB, localLyricsDB, fetch, initialDB, engineVars>>

\* Line 103: a caller that joined settles with the operation it joined.
TransSettled(c) ==
    \/ call[c].pc = "tDone"
    \/ call[c].pc = "tJoined" /\ Settled(trans[call[c].waitsOn])

TransResult(c) ==
    IF call[c].pc = "tDone" THEN call[c].result ELSE trans[call[c].waitsOn].result

(***************************************************************************)
(* TranslationService.performAndCacheTranslation                           *)
(***************************************************************************)
TransformOutcomes == {"ok", "error"}

\* Lines 116-120 with the settlement of the promise: the caller that started the
\* operation resumes in the same turn of the event loop, and its finally block
\* removes the registry entry of the key.
SettleTrans(c, pc, res) ==
    /\ trans' = [trans EXCEPT ![c].pc = pc, ![c].result = res]
    /\ ongoingFetches' = [ongoingFetches EXCEPT ![trans[c].key] = 0]
    /\ call' = [call EXCEPT ![c] =
            TFinish(call[c], res, IF IsError(res) THEN "error" ELSE "transform")]

\* Lines 131-166: the transformation settles; its result is written to the
\* memory cache.
PerformReturn(c) ==
    /\ trans[c].pc = "perform"
    /\ \E o \in TransformOutcomes :
          IF o = "error"
          THEN /\ SettleTrans(c, "rejected", [error |-> "TransformError"])
               /\ UNCHANGED <<cache, clock>>
          ELSE \E generatedAt \in Now :
               LET finalTranslatedLyrics ==
                       [lyrics |-> trans[c].base.lyrics, generatedAt |-> generatedAt]
               IN  /\ clock' = generatedAt
                   /\ cache' = [cache EXCEPT ![trans[c].key] =
                          [translatedLyrics |-> finalTranslatedLyrics,
                           originalVersion |-> trans[c].base.version]]
                   /\ trans' = [trans EXCEPT ![c].pc = "dbSet",
                                             ![c].result = finalTranslatedLyrics]
                   /\ UNCHANGED <<call, ongoingFetches>>
    /\ UNCHANGED <<settings, lyricsDB, translationsDB, localLyricsDB,
                   fetch, initialDB, engineVars>>

\* Lines 166-172: translationsDB.set settles.
TransDBSet(c) ==
    /\ trans[c].pc = "dbSet"
    /\ \E o \in StoreOutcomes :
          IF o = "ok"
          THEN /\ translationsDB' = [translationsDB EXCEPT ![trans[c].key] =
                      [translatedLyrics |-> trans[c].result,
                       originalVersion |-> trans[c].base.version]]
               /\ SettleTrans(c, "fulfilled", trans[c].result)
          ELSE /\ SettleTrans(c, "rejected", [error |-> "StoreError"])
               /\ UNCHANGED translationsDB
    /\ UNCHANGED <<clock, settings, cache, lyricsDB, localLyricsDB, fetch, initialDB, engineVars>>

InitialTranslationRecords ==
    {Null, [translatedLyrics |-> [lyrics |-> CachedDoc, generatedAt |-> 0],
            originalVersion |-> 0]}

InitTrans ==
    /\ InitCommon
    /\ translationsDB \in [TransKeys -> InitialTranslationRecords]
    /\ initialDB = [lyrics |-> lyricsDB, translations |-> translationsDB]

NextTrans ==
    \E c \in Callers :
          \/ TranslateLyrics(c)
          \/ GetFromDBSettings(c)
          \/ LyricsDBGet(c)
          \/ GetFromDBCheck(c)
          \/ LyricsDBDelete(c)
          \/ CheckLocalLyrics(c)
          \/ FetchSettings(c)
          \/ ProviderReturn(c)
          \/ SubtitleReturn(c)
          \/ LyricsDBSet(c)
          \/ AfterLyrics(c)
          \/ TransDBGet(c)
          \/ GetCachedCheck(c)
          \/ TransDBDelete(c)
          \/ PerformReturn(c)
          \/ TransDBSet(c)

SpecTrans == InitTrans /\ [][NextTrans]_vars

(***************************************************************************)
(* The provider chain of fetchNewLyrics, over every preference and over    *)
(* songs with and without subtitle data.                                   *)
(***************************************************************************)
Song2 == [Song1 EXCEPT !.subtitle = FALSE]

ChainSongs == {Song1, Song2}

PreferredChoices == {"kpoe", "customKpoe", "lrclib", "local", "gemini", "google", "other"}

ChainSettings == {[cacheStrategy |-> st, lyricsProvider |-> p, customKpoeUrl |-> u] :
                     st \in Strategies, p \in PreferredChoices, u \in {"", "url"}}

\* Lines 41-72 of LyricsService.getOrFetch with forceReload, which goes to the
\* in-flight step and the provider chain at once, for any song of ChainSongs.
ReloadLyrics(c) ==
    /\ MayCall(c)
    /\ \E s \in ChainSongs :
          StartLyrics(c, [IdleCall EXCEPT !.song = s, !.force = TRUE])
    /\ UNCHANGED <<clock, settings, cache, lyricsDB, translationsDB, localLyricsDB,
                   trans, initialDB, engineVars>>

InitChain ==
    /\ clock = 1
    /\ settings \in ChainSettings
    /\ cache = [k \in AllKeys |-> Null]
    /\ ongoingFetches = [k \in AllKeys |-> 0]
    /\ lyricsDB = [k \in LyricsKeys |-> Null]
    /\ translationsDB = [k \in TransKeys |-> Null]
    /\ localLyricsDB \in InitialLocalStores
    /\ call = [c \in Callers |-> IdleCall]
    /\ fetch = [c \in Callers |-> NoFetch]
    /\ trans = [c \in Callers |-> NoTrans]
    /\ initialDB = [lyrics |-> lyricsDB, translations |-> translationsDB]
    /\ EnginesIdle

NextChain ==
    \E c \in Callers :
          \/ ReloadLyrics(c)
          \/ FetchSettings(c)
          \/ ProviderReturn(c)
          \/ SubtitleReturn(c)
          \/ LyricsDBSet(c)

SpecChain == InitChain /\ [][NextChain]_vars

(***************************************************************************)
(* TranslationService.translate                                            *)
(*                                                                         *)
(* A string is a sequence of characters wrapped in a record, so that a     *)
(* value that is no string (null, undefined, a number) can stand beside it.*)
(***************************************************************************)
MaxLines == 6

MaxWorkers == 5

Str(chars) == [str |-> chars]

IsString(v) == "str" \in DOMAIN v

EmptyStr == Str(<<>>)

Truthy(v) == v # Null /\ v # EmptyStr

ToLowerCase(chars) ==
    LET lower(ch) == CASE ch = "E" -> "e" [] ch = "N" -> "n" [] ch = "U" -> "u"
                       [] ch = "S" -> "s" [] ch = "Z" -> "z" [] ch = "H" -> "h"
                       [] ch = "C" -> "c" [] ch = "J" -> "j" [] ch = "A" -> "a"
                       [] OTHER -> ch
    IN  [i \in 1..Len(chars) |-> lower(chars[i])]

RECURSIVE TrimStart(_)
TrimStart(chars) ==
    IF chars # <<>> /\ Head(chars) = " " THEN TrimStart(Tail(chars)) ELSE chars

RECURSIVE TrimEnd(_)
TrimEnd(chars) ==
    IF chars # <<>> /\ chars[Len(chars)] = " "
    THEN TrimEnd(SubSeq(chars, 1, Len(chars) - 1)) ELSE chars

Trim(chars) == TrimEnd(TrimStart(chars))

\* split(/[-_]/)[0]: what stands before the first separator.
RECURSIVE FirstPart(_)
FirstPart(chars) ==
    IF chars = <<>> \/ Head(chars) \in {"-", "_"} THEN <<>>
    ELSE <<Head(chars)>> \o FirstPart(Tail(chars))

\* Lines 24-27.
NormalizeLanguageCode(lang) ==
    IF ~Truthy(lang) \/ ~IsString(lang) THEN EmptyStr
    ELSE Str(FirstPart(ToLowerCase(Trim(lang.str))))

\* The lines of a document: line i (from 0) has the text i.
Text(i) == [text |-> i]

Document(n) == [i \in 1..n |-> [text |-> Text(i - 1)]]

Documents == {Document(n) : n \in 0..MaxLines}

TargetLangs == {Null, Str(<<"e", "n">>), Str(<<" ", "E", "N", "_", "U", "S">>),
                Str(<<"z", "h", "-", "C", "N">>)}

\* What the detection request can give: a failed request, or a body whose
\* third element is this value.
DetectResponses ==
    {[ok |-> FALSE, lang |-> Null], [ok |-> TRUE, lang |-> Null],
     [ok |-> TRUE, lang |-> EmptyStr], [ok |-> TRUE, lang |-> Str(<<"E", "N">>)],
     [ok |-> TRUE, lang |-> Str(<<"z", "h", "-", "C", "N">>)]}

\* Lines 30-52: null without a request when no line has text.
DetectSourceLanguage(lines, response) ==
    IF Len(lines) = 0 \/ ~response.ok THEN Null
    ELSE IF IsString(response.lang) THEN Str(ToLowerCase(response.lang.str))
    ELSE Null

TranslationSettings ==
    {[translationProvider |-> "gemini", geminiApiKey |-> Str(<<"k">>)],
     [translationProvider |-> "gemini", geminiApiKey |-> EmptyStr],
     [translationProvider |-> "google", geminiApiKey |-> Str(<<"k">>)]}

\* Lines 391-396.
MergeTranslatedTexts(lines, translatedTexts) ==
    [i \in 1..Len(lines) |->
        [text |-> lines[i].text,
         translatedText |-> IF i - 1 \in DOMAIN translatedTexts
                                  /\ Truthy(translatedTexts[i - 1])
                               THEN translatedTexts[i - 1] ELSE lines[i].text]]

\* What the primary provider's request can end in.
GeminiResponses ==
    {"transport", "http", "blocked", "unparsable", "notArray", "short", "long", "ok"}

GeminiTranslated(i) == [gemini |-> Text(i)]

\* GeminiService.translate: the translated texts, or an exception.
GeminiTranslate_Lenient(texts, response) ==
    IF response \in {"ok", "short", "long"}
    THEN LET m == IF response = "short" THEN Len(texts) - 1
                  ELSE IF response = "long" THEN Len(texts) + 1 ELSE Len(texts)
         IN  [throws |-> FALSE, value |-> [i \in 0..(m - 1) |-> GeminiTranslated(i)]]
    ELSE [throws |-> TRUE, value |-> Null]

GeminiTranslate(texts, response) ==
    IF response = "ok"
    THEN [throws |-> FALSE,
          value |-> [i \in 0..(Len(texts) - 1) |-> GeminiTranslated(i)]]
    ELSE [throws |-> TRUE, value |-> Null]

GoogleOutcomes == {"ok", "error"}

GoogleTranslated(text) == [google |-> text]

Min(a, b) == IF a < b THEN a ELSE b

Max(a, b) == IF a < b THEN b ELSE a

\* Line 289.
WorkerCount(n) == Min(MaxWorkers, Max(1, n))

ClaimNext_NoAdvance(t) ==
    LET currentIndex == t.nextIndex
    IN  IF currentIndex >= Len(t.lines)
        THEN [t EXCEPT !.ended = @ + 1]
        ELSE [t EXCEPT !.waiting = @ \cup {currentIndex},
                       !.googleCalls = Append(@, currentIndex)]

\* Lines 293-306, from the claim of an index to the await: a worker takes the
\* next index and calls the provider for it; a worker that finds the lines used
\* up ends. The workers are interchangeable: a waiting worker is known by the
\* index it waits for.
ClaimNext(t) ==
    LET currentIndex == t.nextIndex
        claimed == [t EXCEPT !.nextIndex = @ + 1]
    IN  IF currentIndex >= Len(t.lines)
        THEN [claimed EXCEPT !.ended = @ + 1]
        ELSE [claimed EXCEPT !.waiting = @ \cup {currentIndex},
                             !.googleCalls = Append(@, currentIndex)]

\* Line 308: Array.from calls the worker function workerCount times in a row.
RECURSIVE StartWorkers(_, _)
StartWorkers(t, k) ==
    IF k = 0 THEN t ELSE StartWorkers(ClaimNext([t EXCEPT !.workers = @ + 1]), k - 1)

\* Lines 308-313 and 273-279: once every worker has ended the texts are merged
\* and the failed indices go to the metadata.
PoolEnd(t) ==
    IF t.ended < t.workers THEN t
    ELSE [t EXCEPT !.pc = "done",
                   !.data = MergeTranslatedTexts(t.lines, t.translatedTexts),
                   !.meta.failedLines = t.failedIndices]

\* Lines 286-308: translateWithGoogle starts its workers.
StartPool(t) ==
    PoolEnd(StartWorkers([t EXCEPT !.pc = "pool"], WorkerCount(Len(t.lines))))

UseGemini(settings_) ==
    settings_.translationProvider = "gemini" /\ Truthy(settings_.geminiApiKey)

\* Lines 234-236: translate is called and asks for the source language.
Translate ==
    /\ tr.pc = "idle"
    /\ \E lines \in Documents, targetLang \in TargetLangs, s \in TranslationSettings :
          tr' = [pc |-> "detect", lines |-> lines, targetLang |-> targetLang,
                 settings |-> s, detected |-> Null, primaryResponse |-> "none",
                 meta |-> Null, data |-> Null,
                 geminiCalls |-> 0, googleCalls |-> <<>>, nextIndex |-> 0,
                 translatedTexts |-> [i \in {} |-> Null], failedIndices |-> {},
                 workers |-> 0, waiting |-> {}, ended |-> 0]
    /\ UNCHANGED exceptTr

SameLanguage_Never(sourceLang, normalizedTarget) == FALSE

\* Line 247.
SameLanguage(sourceLang, normalizedTarget) ==
    Truthy(sourceLang) /\ Truthy(normalizedTarget) /\ sourceLang = normalizedTarget

\* Lines 236-262 and 273: the detection has answered; pass-through, or the
\* primary provider is called, or the worker pool starts.
DetectReturn ==
    /\ tr.pc = "detect"
    /\ \E response \in DetectResponses :
          LET useGemini == UseGemini(tr.settings)
              sourceLang == DetectSourceLanguage(tr.lines, response)
              normalizedTarget == NormalizeLanguageCode(tr.targetLang)
              meta == [provider |-> IF useGemini THEN "gemini" ELSE "google",
                       sourceLang |-> IF Truthy(sourceLang) THEN sourceLang
                                      ELSE Str(<<"a", "u", "t", "o">>),
                       fallbackUsed |-> FALSE, skippedReason |-> Null,
                       failedLines |-> {}]
              t == [tr EXCEPT !.meta = meta, !.detected = sourceLang]
          IN  tr' = IF SameLanguage(sourceLang, normalizedTarget)
                    THEN [t EXCEPT !.pc = "done",
                                   !.meta.provider = "pass-through",
                                   !.meta.skippedReason = "source-matches-target",
                                   !.data = [i \in 1..Len(t.lines) |->
                                               [text |-> t.lines[i].text,
                                                translatedText |-> t.lines[i].text]]]
                    ELSE IF useGemini
                    THEN [t EXCEPT !.pc = "primary", !.geminiCalls = @ + 1]
                    ELSE StartPool(t)
    /\ UNCHANGED exceptTr

\* Lines 258-273: the primary provider has answered.
PrimaryReturn ==
    /\ tr.pc = "primary"
    /\ \E response \in GeminiResponses :
          LET textsToTranslate == [i \in 1..Len(tr.lines) |-> tr.lines[i].text]
              out == GeminiTranslate(textsToTranslate, response)
              t == [tr EXCEPT !.primaryResponse = response]
          IN  /\ response = "short" => Len(tr.lines) > 0
              /\ tr' = IF ~out.throws
                        THEN [t EXCEPT !.pc = "done",
                                       !.data = MergeTranslatedTexts(t.lines, out.value)]
                        ELSE StartPool([t EXCEPT !.meta.fallbackUsed = TRUE,
                                                 !.meta.provider = "google"])
    /\ UNCHANGED exceptTr

RecordFailure_Drop(failedIndices, currentIndex) == failedIndices

\* Line 302: failedIndices.add(currentIndex).
RecordFailure(failedIndices, currentIndex) == failedIndices \cup {currentIndex}

\* Lines 293-306: the call of the secondary provider for one index settles;
\* its worker takes the next index.
WorkerReturn(currentIndex) ==
    /\ tr.pc = "pool"
    /\ currentIndex \in tr.waiting
    /\ \E o \in GoogleOutcomes :
          LET text == tr.lines[currentIndex + 1].text
              back == [tr EXCEPT !.waiting = @ \ {currentIndex}]
              t == IF o = "ok"
                   THEN [back EXCEPT !.translatedTexts =
                                         @ @@ (currentIndex :> GoogleTranslated(text))]
                   ELSE [back EXCEPT !.translatedTexts = @ @@ (currentIndex :> text),
                                     !.failedIndices = RecordFailure(@, currentIndex)]
          IN  tr' = PoolEnd(ClaimNext(t))
    /\ UNCHANGED exceptTr

InitServicesIdle ==
    /\ clock = 1
    /\ settings = [cacheStrategy |-> "aggressive", lyricsProvider |-> "kpoe",
                   customKpoeUrl |-> ""]
    /\ cache = [k \in AllKeys |-> Null]
    /\ ongoingFetches = [k \in AllKeys |-> 0]
    /\ lyricsDB = [k \in LyricsKeys |-> Null]
    /\ translationsDB = [k \in TransKeys |-> Null]
    /\ localLyricsDB = {}
    /\ call = [c \in Callers |-> IdleCall]
    /\ fetch = [c \in Callers |-> NoFetch]
    /\ trans = [c \in Callers |-> NoTrans]
    /\ initialDB = [lyrics |-> lyricsDB, translations |-> translationsDB]

InitTranslate == InitServicesIdle /\ EnginesIdle

NextTranslate ==
    \/ Translate
    \/ DetectReturn
    \/ PrimaryReturn
    \/ \E i \in 0..(MaxLines - 1) : WorkerReturn(i)

SpecTranslate == InitTranslate /\ [][NextTranslate]_vars

(***************************************************************************)
(* TranslationService.romanize                                             *)
(***************************************************************************)
MaxRomLines == 2

Original == Str(<<"x">>)

\* A romanization that says what the original says: equal after trim.
Unchanged == Str(<<"x", " ">>)

Romanized == Str(<<"r">>)

Syllable(romanizedText) == [text |-> Original, romanizedText |-> romanizedText]

\* A syllabus is its syllables in a record, or Null where the line has none.
Syllabus(syllables) == [syllables |-> syllables]

Line(romanizedText, syllabus) ==
    [text |-> Original, romanizedText |-> romanizedText, syllabus |-> syllabus]

\* Input lines: plain, word-synced, with a prebuilt line romanization, with a
\* prebuilt syllable romanization.
InputLines ==
    {Line(Null, Null),
     Line(Null, Syllabus(<<Syllable(Null), Syllable(Null)>>)),
     Line(Romanized, Null),
     Line(Null, Syllabus(<<Syllable(Romanized)>>))}

RECURSIVE SeqsUpTo(_, _)
SeqsUpTo(S, n) ==
    IF n = 0 THEN {<<>>}
    ELSE LET shorter == SeqsUpTo(S, n - 1)
         IN  shorter \cup {Append(q, x) : q \in {r \in shorter : Len(r) = n - 1}, x \in S}

RomanizeDocuments == SeqsUpTo(InputLines, MaxRomLines)

RomanizationSettings ==
    {[romanizationProvider |-> p, geminiApiKey |-> k] :
        p \in {"gemini", "google"}, k \in {EmptyStr, Str(<<"k">>)}}

\* What GoogleService.romanize can give for one line: no line, or the line with
\* a romanizedText (absent, unchanged, romanized) and, for a word-synced line,
\* a romanizedText for each syllable.
GoogleLineResults(line) ==
    {Null} \cup
    {Line(r, y) : r \in {Null, Unchanged, Romanized},
                  y \in IF line.syllabus = Null THEN {Null}
                        ELSE LET n == Len(line.syllabus.syllables)
                             IN  {Syllabus([i \in 1..n |-> Syllable(q[i])]) :
                                     q \in [1..n -> {Unchanged, Romanized}]}}

RECURSIVE GoogleResults(_)
GoogleResults(lines) ==
    IF lines = <<>> THEN {<<>>}
    ELSE {<<first>> \o rest : first \in GoogleLineResults(Head(lines)),
                              rest \in GoogleResults(Tail(lines))}

SameText(a, b) == Trim(a.str) = Trim(b.str)

\* Lines 321-323.
HasPrebuilt(lines) ==
    \E i \in 1..Len(lines) :
        \/ Truthy(lines[i].romanizedText)
        \/ /\ lines[i].syllabus # Null
           /\ \E j \in 1..Len(lines[i].syllabus.syllables) :
                 Truthy(lines[i].syllabus.syllables[j].romanizedText)

\* Lines 355-373.
AllResultsSameAsInput(lines, googleResult) ==
    \A index \in 1..Len(lines) :
        LET line == lines[index]
            resultLine == googleResult[index]
        IN  IF resultLine = Null THEN TRUE
            ELSE IF Truthy(resultLine.romanizedText)
                    /\ SameText(resultLine.romanizedText, line.text) THEN TRUE
            ELSE IF resultLine.syllabus # Null /\ line.syllabus # Null
            THEN \A sylIndex \in 1..Len(resultLine.syllabus.syllables) :
                    LET syl == resultLine.syllabus.syllables[sylIndex]
                    IN  \/ sylIndex > Len(line.syllabus.syllables)
                        \/ ~Truthy(syl.romanizedText)
                        \/ SameText(syl.romanizedText,
                                    line.syllabus.syllables[sylIndex].text)
            ELSE FALSE

GeminiRomanizeOutcomes == {"ok", "error"}

GeminiRomanized(lines) == [i \in 1..Len(lines) |-> [gemini |-> i - 1]]

\* Lines 320-350: romanize is called; a prebuilt romanization is returned as it
\* is, else the configured provider is called.
Romanize ==
    /\ rom.pc = "idle"
    /\ \E lines \in RomanizeDocuments, s \in RomanizationSettings :
          LET useGemini == s.romanizationProvider = "gemini" /\ Truthy(s.geminiApiKey)
              meta == [provider |-> IF useGemini THEN "gemini" ELSE "google",
                       fallbackUsed |-> FALSE, skippedReason |-> Null]
              r == [pc |-> "idle", lines |-> lines, settings |-> s, meta |-> meta,
                    googleResult |-> <<>>, data |-> <<>>,
                    googleCalls |-> 0, geminiCalls |-> 0]
          IN  rom' = IF HasPrebuilt(lines)
                     THEN [r EXCEPT !.pc = "done", !.data = lines,
                                    !.meta.provider = "prebuilt",
                                    !.meta.skippedReason = "prebuilt-romanization"]
                     ELSE IF useGemini
                     THEN [r EXCEPT !.pc = "gemini", !.geminiCalls = 1]
                     ELSE [r EXCEPT !.pc = "google", !.googleCalls = 1]
    /\ UNCHANGED exceptRom

\* Lines 352-385: GoogleService.romanize has answered; an answer that leaves
\* every line as it was is redone by Gemini when there is an API key.
GoogleRomanizeReturn ==
    /\ rom.pc = "google"
    /\ \E googleResult \in GoogleResults(rom.lines) :
          LET r == [rom EXCEPT !.googleResult = googleResult]
          IN  rom' = IF AllResultsSameAsInput(rom.lines, googleResult)
                        /\ Truthy(rom.settings.geminiApiKey)
                     THEN [r EXCEPT !.pc = "fallback", !.geminiCalls = 1,
                                    !.meta.fallbackUsed = TRUE,
                                    !.meta.provider = "gemini"]
                     ELSE [r EXCEPT !.pc = "done", !.data = googleResult]
    /\ UNCHANGED exceptRom

\* Lines 346-349 and 381-382: GeminiService.romanize has settled.
GeminiRomanizeReturn ==
    /\ rom.pc \in {"gemini", "fallback"}
    /\ \E o \in GeminiRomanizeOutcomes :
          rom' = IF o = "ok"
                 THEN [rom EXCEPT !.pc = "done", !.data = GeminiRomanized(rom.lines)]
                 ELSE [rom EXCEPT !.pc = "rejected"]
    /\ UNCHANGED exceptRom

InitRomanize == InitServicesIdle /\ EnginesIdle

NextRomanize ==
    \/ Romanize
    \/ GoogleRomanizeReturn
    \/ GeminiRomanizeReturn

SpecRomanize == InitRomanize /\ [][NextRomanize]_vars

(***************************************************************************)
(* GeminiRomanizer                                                         *)
(***************************************************************************)
MaxGemLines == 4

MAX_RETRIES == 5

\* Texts: one purely Latin, two that are not.
LatinText == [chars |-> "la", latin |-> TRUE]

TextA == [chars |-> "a", latin |-> FALSE]

TextB == [chars |-> "b", latin |-> FALSE]

IsPurelyLatinScript(text) == text.latin

\* The chunk array of a word-synced line, as GeminiService.prepareStructuredInput
\* builds it from the syllables: never empty.
Chunks(text) ==
    [items |-> <<[text |-> [chars |-> text.chars, part |-> 0], chunkIndex |-> 0],
                 [text |-> [chars |-> text.chars, part |-> 1], chunkIndex |-> 1]>>]

LineKinds ==
    {[text |-> LatinText, chunk |-> Null], [text |-> LatinText, chunk |-> Chunks(LatinText)],
     [text |-> TextA, chunk |-> Null], [text |-> TextA, chunk |-> Chunks(TextA)],
     [text |-> TextB, chunk |-> Null]}

\* ui.js lines 971-987: line i of the document, with its index.
StructuredInputs ==
    {[i \in 1..Len(kinds) |-> [original_line_index |-> i - 1, text |-> kinds[i].text,
                               chunk |-> kinds[i].chunk]] :
        kinds \in SeqsUpTo(LineKinds, MaxGemLines)}

HasChunk(line) == line.chunk # Null /\ Len(line.chunk.items) > 0

ContentKey_TextOnly(line) == [text |-> line.text]

\* Line 186: JSON.stringify({ text, chunk }).
ContentKey(line) == [text |-> line.text, chunk |-> line.chunk]

\* Lines 180-206, for the lines from position i on: keys[j] is the content key
\* that contentToApiIndexMap maps to the slot j - 1.
RECURSIVE PrepareFrom(_, _, _, _, _)
PrepareFrom(structuredInput, i, lyricsForApi, keys, reconstructionPlan) ==
    IF i > Len(structuredInput)
    THEN [lyricsForApi |-> lyricsForApi, reconstructionPlan |-> reconstructionPlan]
    ELSE LET line == structuredInput[i]
             originalIndex == i - 1
             contentKey == ContentKey(line)
         IN  IF IsPurelyLatinScript(line.text)
             THEN PrepareFrom(structuredInput, i + 1, lyricsForApi, keys,
                      Append(reconstructionPlan,
                             [type |-> "latin", data |-> line, apiIndex |-> -1,
                              originalIndex |-> originalIndex]))
             ELSE IF InSeq(contentKey, keys)
             THEN PrepareFrom(structuredInput, i + 1, lyricsForApi, keys,
                      Append(reconstructionPlan,
                             [type |-> "api", data |-> Null,
                              apiIndex |-> (CHOOSE j \in 1..Len(keys) :
                                                keys[j] = contentKey) - 1,
                              originalIndex |-> originalIndex]))
             ELSE LET newApiIndex == Len(lyricsForApi)
                      apiLine == [text |-> line.text, original_line_index |-> newApiIndex,
                                  chunk |-> IF HasChunk(line) THEN line.chunk ELSE Null]
                  IN  PrepareFrom(structuredInput, i + 1, Append(lyricsForApi, apiLine),
                          Append(keys, contentKey),
                          Append(reconstructionPlan,
                                 [type |-> "api", data |-> Null, apiIndex |-> newApiIndex,
                                  originalIndex |-> originalIndex]))

\* Lines 172-209.
PrepareLyrics(structuredInput) == PrepareFrom(structuredInput, 1, <<>>, <<>>, <<>>)

\* Line 34: computed over the lines that go to the transformer.
HasAnyChunks(lyricsForApi) ==
    \E i \in 1..Len(lyricsForApi) : HasChunk(lyricsForApi[i])

\* Lines 217-245: fullList as a function of the positions that were assigned.
ReconstructLyrics(romanizedApiLyrics, reconstructionPlan, hasAnyChunks) ==
    LET reconstructedLine(planItem) ==
            IF planItem.type = "latin"
            THEN [original_line_index |-> planItem.originalIndex,
                  text |-> planItem.data.text,
                  chunk |-> IF hasAnyChunks /\ planItem.data.chunk # Null
                            THEN planItem.data.chunk ELSE Null]
            ELSE IF planItem.apiIndex + 1 \in 1..Len(romanizedApiLyrics)
            THEN [romanizedApiLyrics[planItem.apiIndex + 1]
                      EXCEPT !.original_line_index = planItem.originalIndex]
            ELSE [original_line_index |-> planItem.originalIndex, text |-> Null,
                  chunk |-> Null]
        positions == {reconstructionPlan[k].originalIndex : k \in 1..Len(reconstructionPlan)}
        last(p) == CHOOSE k \in 1..Len(reconstructionPlan) :
                      /\ reconstructionPlan[k].originalIndex = p
                      /\ \A m \in 1..Len(reconstructionPlan) :
                            reconstructionPlan[m].originalIndex = p => m <= k
    IN  [p \in positions |-> reconstructedLine(reconstructionPlan[last(p)])]

\* What the transformer makes of a line of lyricsForApi when it does it right.
RomanizedText(text) == [romanized |-> text]

GoodLine(apiLine, index) ==
    [original_line_index |-> index, text |-> RomanizedText(apiLine.text),
     chunk |-> IF apiLine.chunk = Null THEN Null
               ELSE [items |-> [k \in 1..Len(apiLine.chunk.items) |->
                                  [text |-> RomanizedText(apiLine.chunk.items[k].text),
                                   chunkIndex |-> apiLine.chunk.items[k].chunkIndex]]]]

\* The same line without a text.
NoTextLine(apiLine, index) == [GoodLine(apiLine, index) EXCEPT !.text = Null]

ValidResponse(lyricsForApi) ==
    [romanized_lyrics |-> [i \in 1..Len(lyricsForApi) |-> GoodLine(lyricsForApi[i], i - 1)]]

\* A response that lacks the last line.
ShortResponse(lyricsForApi) ==
    [romanized_lyrics |-> [i \in 1..(Len(lyricsForApi) - 1) |->
                              GoodLine(lyricsForApi[i], i - 1)]]

\* A response whose first line has no text.
FlawedResponse(lyricsForApi) ==
    [romanized_lyrics |-> [i \in 1..Len(lyricsForApi) |->
                              IF i = 1 THEN NoTextLine(lyricsForApi[i], i - 1)
                              ELSE GoodLine(lyricsForApi[i], i - 1)]]

FixedLines(lyricsForApi) == [fixed_lines |-> <<GoodLine(lyricsForApi[1], 0)>>]

\* What a call of the transformer can end in: a transport or API error, a text
\* that is no JSON, or a JSON value.
Answers(lyricsForApi, isSelectiveFix) ==
    {[kind |-> "transport", json |-> Null], [kind |-> "unparsable", json |-> Null]}
    \cup {[kind |-> "json", json |-> j] :
             j \in IF isSelectiveFix
                   THEN {FixedLines(lyricsForApi), ValidResponse(lyricsForApi)}
                   ELSE {ValidResponse(lyricsForApi), ShortResponse(lyricsForApi),
                         FlawedResponse(lyricsForApi)}}

HasRomanizedLyrics(response) == "romanized_lyrics" \in DOMAIN response

\* The characters of a text. A text of the test responses is a string of
\* characters; the romanization of a line is written as the romanizations of
\* its two chunks, one after the other.
Content(text) ==
    IF text = Null THEN <<>>
    ELSE IF IsString(text) THEN text.str
    ELSE IF "part" \in DOMAIN text.romanized THEN <<text.romanized.chars>>
    ELSE <<text.romanized.chars, text.romanized.chars>>

\* Utilities.normalizeText: lower case, without white space.
NormalizeText(chars) == ToLowerCase(SelectSeq(chars, LAMBDA ch : ch # " "))

\* Utilities.levenshteinDistance.
RECURSIVE LevenshteinDistance(_, _)
LevenshteinDistance(a, b) ==
    IF a = <<>> THEN Len(b)
    ELSE IF b = <<>> THEN Len(a)
    ELSE IF Head(a) = Head(b) THEN LevenshteinDistance(Tail(a), Tail(b))
    ELSE 1 + Min(LevenshteinDistance(Tail(a), Tail(b)),
                 Min(LevenshteinDistance(Tail(a), b), LevenshteinDistance(a, Tail(b))))

\* chunk.map(c => c.text || '').join('').
RECURSIVE MergedChunkText(_)
MergedChunkText(chunks) ==
    IF chunks = <<>> THEN <<>>
    ELSE Content(Head(chunks).text) \o MergedChunkText(Tail(chunks))

ValidateTextCoherence_Strict(romanizedLine, lineIndex) ==
    LET normalizedMerged == NormalizeText(MergedChunkText(romanizedLine.chunk.items))
        normalizedLine == NormalizeText(Content(romanizedLine.text))
        distance == LevenshteinDistance(normalizedMerged, normalizedLine)
        maxLength == Max(Len(normalizedMerged), Len(normalizedLine))
    IN  IF normalizedMerged # normalizedLine /\ maxLength # 0
           /\ distance * 100 >= 20 * maxLength
        THEN <<[line |-> lineIndex, error |-> "significant text mismatch"]>>
        ELSE <<>>

\* responseValidator.js lines 121-143: (distance / maxLength) * 100 > 20.
ValidateTextCoherence(romanizedLine, lineIndex) ==
    LET normalizedMerged == NormalizeText(MergedChunkText(romanizedLine.chunk.items))
        normalizedLine == NormalizeText(Content(romanizedLine.text))
        distance == LevenshteinDistance(normalizedMerged, normalizedLine)
        maxLength == Max(Len(normalizedMerged), Len(normalizedLine))
    IN  IF normalizedMerged # normalizedLine /\ maxLength # 0
           /\ distance * 100 > 20 * maxLength
        THEN <<[line |-> lineIndex, error |-> "significant text mismatch"]>>
        ELSE <<>>

\* !chunk.text || chunk.text.trim() === ''.
IsEmptyChunk(chunk) == Trim(Content(chunk.text)) = <<>>

\* responseValidator.js lines 93-115.
ValidateChunkDistribution(originalLine, romanizedLine, lineIndex) ==
    LET chunks == romanizedLine.chunk.items
        emptyChunks == {k \in 1..Len(chunks) : IsEmptyChunk(chunks[k])}
        nonEmptyChunks == {k \in 1..Len(chunks) : ~IsEmptyChunk(chunks[k])}
    IN  (IF emptyChunks # {}
         THEN <<[line |-> lineIndex, error |-> "empty chunk(s)"]>> ELSE <<>>)
        \o (IF Cardinality(nonEmptyChunks) = 1 /\ Len(chunks) > 1
            THEN <<[line |-> lineIndex, error |-> "all text concentrated in one chunk"]>>
            ELSE <<>>)
        \o ValidateTextCoherence(romanizedLine, lineIndex)

LineErrors_IgnoreText(originalLine, romanizedLine, index) ==
    IF romanizedLine.original_line_index # index
    THEN <<[line |-> index, error |-> "incorrect original_line_index"]>> ELSE <<>>

\* The errors of one line, in the order of lines 43-82 of the validator.
LineErrors(originalLine, romanizedLine, index) ==
    LET originalHasChunks == HasChunk(originalLine)
        romanizedHasChunks == romanizedLine.chunk # Null
    IN  (IF romanizedLine.original_line_index # index
         THEN <<[line |-> index, error |-> "incorrect original_line_index"]>> ELSE <<>>)
        \o (IF romanizedLine.text = Null
            THEN <<[line |-> index, error |-> "missing or invalid text field"]>> ELSE <<>>)
        \o (IF ~originalHasChunks /\ romanizedHasChunks
            THEN <<[line |-> index, error |-> "unexpected chunk array"]>>
            ELSE IF originalHasChunks /\ ~romanizedHasChunks
            THEN <<[line |-> index, error |-> "missing expected chunk array"]>>
            ELSE IF originalHasChunks
                    /\ Len(romanizedLine.chunk.items) # Len(originalLine.chunk.items)
            THEN <<[line |-> index, error |-> "chunk count mismatch"]>>
            ELSE IF originalHasChunks
            THEN ValidateChunkDistribution(originalLine, romanizedLine, index)
            ELSE <<>>)

RECURSIVE ErrorsFrom(_, _, _)
ErrorsFrom(originalLyricsForApi, lines, i) ==
    IF i > Len(lines) THEN <<>>
    ELSE LineErrors(originalLyricsForApi[i], lines[i], i - 1)
             \o ErrorsFrom(originalLyricsForApi, lines, i + 1)

Validate_AnyLength(originalLyricsForApi, geminiResponse) ==
    LET errors == IF ~HasRomanizedLyrics(geminiResponse)
                  THEN <<[line |-> -1, error |-> "romanized_lyrics missing"]>>
                  ELSE <<>>
    IN  [isValid |-> errors = <<>>, errors |-> errors,
         detailedErrors |-> {errors[k].line : k \in 1..Len(errors)} \ {-1}]

\* responseValidator.js lines 16-86; detailedErrors as the set of line indices
\* that have an entry.
Validate(originalLyricsForApi, geminiResponse) ==
    LET errors ==
            IF ~HasRomanizedLyrics(geminiResponse)
            THEN <<[line |-> -1, error |-> "romanized_lyrics missing"]>>
            ELSE IF Len(geminiResponse.romanized_lyrics) # Len(originalLyricsForApi)
            THEN <<[line |-> -1, error |-> "line count mismatch"]>>
            ELSE ErrorsFrom(originalLyricsForApi, geminiResponse.romanized_lyrics, 1)
    IN  [isValid |-> errors = <<>>, errors |-> errors,
         detailedErrors |-> {errors[k].line : k \in 1..Len(errors)} \ {-1}]

\* Lines 321-345.
MergeSelectiveFixes(lastValidResponse, fixedLines) ==
    IF lastValidResponse = Null \/ ~HasRomanizedLyrics(lastValidResponse)
    THEN [romanized_lyrics |-> fixedLines]
    ELSE LET base == lastValidResponse.romanized_lyrics
             applies(k) == /\ fixedLines[k].original_line_index >= 0
                           /\ fixedLines[k].original_line_index < Len(base)
             fix(i) == {k \in 1..Len(fixedLines) :
                           applies(k) /\ fixedLines[k].original_line_index = i - 1}
         IN  [romanized_lyrics |->
                 [i \in 1..Len(base) |->
                     IF fix(i) = {} THEN base[i]
                     ELSE fixedLines[CHOOSE k \in fix(i) : \A m \in fix(i) : m <= k]]]

\* Lines 353-415: the indices of the lines to repair.
ProblematicIndices(originalLyricsForApi, response, detailedErrors) ==
    LET lines == IF HasRomanizedLyrics(response) THEN response.romanized_lyrics ELSE <<>>
        flagged == {i \in 1..Len(lines) :
                       /\ i <= Len(originalLyricsForApi)
                       /\ \/ /\ HasChunk(originalLyricsForApi[i])
                             /\ lines[i].chunk # Null
                             /\ Len(lines[i].chunk.items) > 0
                             /\ Len(lines[i].chunk.items)
                                    # Len(originalLyricsForApi[i].chunk.items)
                          \/ lines[i].original_line_index # i - 1
                          \/ lines[i].text = Null}
    IN  {p \in detailedErrors \cup {i - 1 : i \in flagged} :
            p + 1 \in 1..Len(originalLyricsForApi)}

CorrectionRequest_Inclusive(problematicCount, lineCount) ==
    IF problematicCount > 0 /\ 5 * problematicCount <= 4 * lineCount
    THEN "selective" ELSE "full"

\* Lines 265-271; length < lyricsForApi.length * 0.8 in whole numbers.
CorrectionRequest(problematicCount, lineCount) ==
    IF problematicCount > 0 /\ 5 * problematicCount < 4 * lineCount
    THEN "selective" ELSE "full"

\* Line 50.
IsSelectiveFix(attempt, lastValidResponse, sameErrorCount) ==
    attempt > 1 /\ lastValidResponse # Null /\ sameErrorCount < 3

\* Lines 49-56: the next turn of the loop calls the transformer.
NextAttempt(g) ==
    [g EXCEPT !.attempt = @ + 1, !.calls = @ + 1,
              !.isSelectiveFix = IsSelectiveFix(g.attempt + 1, g.lastValidResponse,
                                                g.sameErrorCount)]

Caught_DropMessage(g, isSyntaxError, message) ==
    IF g.attempt = MAX_RETRIES
    THEN [g EXCEPT !.pc = "failed", !.failure = <<>>]
    ELSE NextAttempt(IF isSyntaxError
                     THEN [g EXCEPT !.currentContents = Append(@, "json")]
                     ELSE g)

Caught_Retry(g, isSyntaxError, message) ==
    NextAttempt(IF isSyntaxError
                THEN [g EXCEPT !.currentContents = Append(@, "json")]
                ELSE g)

\* Lines 111-125.
Caught(g, isSyntaxError, message) ==
    IF g.attempt = MAX_RETRIES
    THEN [g EXCEPT !.pc = "failed", !.failure = message]
    ELSE NextAttempt(IF isSyntaxError
                     THEN [g EXCEPT !.currentContents = Append(@, "json")]
                     ELSE g)

\* Lines 32-47: the invocation after romanize was called with structuredInput;
\* a document without a line for the transformer is reconstructed at once.
Started(structuredInput) ==
    LET prepared == PrepareLyrics(structuredInput)
        lyricsForApi == prepared.lyricsForApi
        hasAnyChunks == HasAnyChunks(lyricsForApi)
        g == [pc |-> "call", structuredInput |-> structuredInput,
              lyricsForApi |-> lyricsForApi,
              reconstructionPlan |-> prepared.reconstructionPlan,
              hasAnyChunks |-> hasAnyChunks,
              currentContents |-> <<"initial">>, lastValidResponse |-> Null,
              sameErrorCount |-> 0, lastError |-> Null,
              attempt |-> 1, isSelectiveFix |-> FALSE, calls |-> 1,
              finalResponse |-> Null, output |-> Null, failure |-> Null,
              outcomes |-> <<>>]
    IN  IF Len(lyricsForApi) = 0
        THEN [g EXCEPT !.pc = "done", !.attempt = 0, !.calls = 0,
                       !.output = ReconstructLyrics(<<>>, prepared.reconstructionPlan,
                                                    hasAnyChunks)]
        ELSE g

\* romanize is called with a document.
GeminiRomanize ==
    /\ gem.pc = "idle"
    /\ \E structuredInput \in StructuredInputs : gem' = Started(structuredInput)
    /\ UNCHANGED exceptGem

\* What the settled call adds to the record of the conversation: how the
\* attempt ended and, for a response that failed the validation, its first
\* error and the response that was validated. The record is history, the
\* program keeps no such list.
Outcome(g, kind, error, response) ==
    [g EXCEPT !.outcomes = Append(@, [kind |-> kind, error |-> error,
                                      response |-> response])]

TrackError_Accumulate(g, currentError) ==
    [g EXCEPT !.sameErrorCount = @ + 1, !.lastError = currentError]

\* Lines 76-82.
TrackError(g, currentError) ==
    IF currentError = g.lastError
    THEN [g EXCEPT !.sameErrorCount = @ + 1]
    ELSE [g EXCEPT !.sameErrorCount = 1, !.lastError = currentError]

\* Lines 53-125: the invocation g after its call of the transformer has
\* settled with the answer.
Returned(g, answer) ==
    IF answer.kind = "transport"
    THEN Caught(Outcome(g, "error", Null, Null), FALSE, <<>>)
    ELSE IF answer.kind = "unparsable"
    THEN Caught(Outcome(g, "syntax", Null, Null), TRUE, <<>>)
    ELSE
    LET parsedJson == answer.json
        finalResponse ==
            IF g.isSelectiveFix /\ "fixed_lines" \in DOMAIN parsedJson
            THEN MergeSelectiveFixes(g.lastValidResponse, parsedJson.fixed_lines)
            ELSE parsedJson
        g1 == IF g.attempt = 1
              THEN [g EXCEPT !.lastValidResponse = parsedJson] ELSE g
        validationResult == Validate(g.lyricsForApi, finalResponse)
        currentError == validationResult.errors[1]
        g2 == Outcome(TrackError(g1, currentError), "invalid", currentError,
                      finalResponse)
        problematicLines ==
            ProblematicIndices(g.lyricsForApi, finalResponse,
                               validationResult.detailedErrors)
    IN  IF validationResult.isValid
        THEN [Outcome(g1, "valid", Null, Null)
                 EXCEPT !.pc = "done", !.finalResponse = finalResponse,
                        !.output = ReconstructLyrics(finalResponse.romanized_lyrics,
                                                     g.reconstructionPlan,
                                                     g.hasAnyChunks)]
        ELSE IF g.attempt = MAX_RETRIES
        THEN Caught(g2, FALSE, validationResult.errors)
        ELSE IF g2.sameErrorCount >= 3
        THEN NextAttempt([g2 EXCEPT !.currentContents = <<"initial">>,
                                    !.sameErrorCount = 0,
                                    !.lastValidResponse = Null])
        ELSE NextAttempt(
                 [g2 EXCEPT !.currentContents =
                     @ \o <<"model",
                            CorrectionRequest(Cardinality(problematicLines),
                                              Len(g.lyricsForApi))>>])

\* The call of the transformer settles.
ApiReturn ==
    /\ gem.pc = "call"
    /\ \E answer \in Answers(gem.lyricsForApi, gem.isSelectiveFix) :
          gem' = Returned(gem, answer)
    /\ UNCHANGED exceptGem

InitGemini == InitServicesIdle /\ EnginesIdle

NextGemini ==
    \/ GeminiRomanize
    \/ ApiReturn

SpecGemini == InitGemini /\ [][NextGemini]_vars

(***************************************************************************)
(* The conversation of GeminiRomanizer.romanize over documents of distinct  *)
(* lines, none of them Latin, and responses that fail on any number of      *)
(* lines.                                                                   *)
(***************************************************************************)
MaxApiLines == 5

ConversationLine(i, chunked) ==
    LET text == [chars |-> ToString(i), latin |-> FALSE]
    IN  [original_line_index |-> i - 1, text |-> text,
         chunk |-> IF chunked THEN Chunks(text) ELSE Null]

\* Documents of 1..MaxApiLines lines; the first line may be word-synced.
ConversationInputs ==
    {[i \in 1..k |-> ConversationLine(i, chunked /\ i = 1)] :
        k \in 1..MaxApiLines, chunked \in BOOLEAN}

\* A response whose first m lines have no text.
FlawedLines(lyricsForApi, m) ==
    [romanized_lyrics |-> [i \in 1..Len(lyricsForApi) |->
                              IF i <= m THEN NoTextLine(lyricsForApi[i], i - 1)
                              ELSE GoodLine(lyricsForApi[i], i - 1)]]

\* A selective answer that repairs the first m lines.
FixedLinesUpTo(lyricsForApi, m) ==
    [fixed_lines |-> [i \in 1..m |-> GoodLine(lyricsForApi[i], i - 1)]]

\* A selective answer that repairs line m alone.
FixedLineAt(lyricsForApi, m) ==
    [fixed_lines |-> <<GoodLine(lyricsForApi[m], m - 1)>>]

ConversationAnswers(lyricsForApi, isSelectiveFix) ==
    {[kind |-> "transport", json |-> Null], [kind |-> "unparsable", json |-> Null]}
    \cup {[kind |-> "json", json |-> j] :
             j \in IF isSelectiveFix
                   THEN {ValidResponse(lyricsForApi)}
                        \cup {FixedLinesUpTo(lyricsForApi, m) :
                                 m \in 1..Len(lyricsForApi)}
                        \cup {FixedLineAt(lyricsForApi, Len(lyricsForApi))}
                   ELSE {ValidResponse(lyricsForApi), ShortResponse(lyricsForApi)}
                        \cup {FlawedLines(lyricsForApi, m) :
                                 m \in 1..Len(lyricsForApi)}}

Converse ==
    /\ gem.pc = "idle"
    /\ \E structuredInput \in ConversationInputs : gem' = Started(structuredInput)
    /\ UNCHANGED exceptGem

ConversationReturn ==
    /\ gem.pc = "call"
    /\ \E answer \in ConversationAnswers(gem.lyricsForApi, gem.isSelectiveFix) :
          gem' = Returned(gem, answer)
    /\ UNCHANGED exceptGem

NextConversation ==
    \/ Converse
    \/ ConversationReturn

SpecConversation == InitGemini /\ [][NextConversation]_vars

\* Every call of the transformer settles: fetch resolves or rejects.
SpecConversationLive == SpecConversation /\ WF_vars(ConversationReturn)

(***************************************************************************)
(* mergeSelectiveFixes over objects: a response object refers to its array  *)
(* of lines, so that a copy and the object it was made from can be told     *)
(* apart.                                                                   *)
(***************************************************************************)
MaxMergeLines == 3

MaxFixedLines == 2

Refs == 1..4

\* The first reference that is not in use.
NewRef(heap) == CHOOSE r \in Refs : heap[r] = Null /\ \A q \in Refs : q < r => heap[q] # Null

Allocate(heap, object) ==
    LET ref == NewRef(heap)
    IN  [heap |-> [heap EXCEPT ![ref] = object], ref |-> ref]

\* The response a reference stands for, with its lines in place of the
\* reference to the array.
Deref(heap, response) ==
    IF response = 0 THEN Null
    ELSE IF heap[response].romanized_lyrics = 0 THEN [other |-> TRUE]
    ELSE [romanized_lyrics |-> heap[heap[response].romanized_lyrics].items]

DeepCopy_Shallow(heap, response) ==
    Allocate(heap, [romanized_lyrics |-> heap[response].romanized_lyrics])

\* Line 327: JSON.parse(JSON.stringify(lastValidResponse)) builds a new
\* response object with a new array of lines.
DeepCopy(heap, response) ==
    LET array == Allocate(heap, heap[heap[response].romanized_lyrics])
    IN  Allocate(array.heap, [romanized_lyrics |-> array.ref])

\* Lines 330-342: the fixed lines from position k on are written into the
\* array, one after the other.
RECURSIVE ApplyFixes(_, _, _)
ApplyFixes(items, fixedLines, k) ==
    IF k > Len(fixedLines) THEN items
    ELSE LET fixedLine == fixedLines[k]
             index == fixedLine.original_line_index
         IN  ApplyFixes(IF index >= 0 /\ index < Len(items)
                        THEN [items EXCEPT ![index + 1] = fixedLine]
                        ELSE items,
                        fixedLines, k + 1)

\* Lines 321-345 over the heap: the heap after the call and the reference
\* that is returned.
MergeSelectiveFixesInPlace(heap, lastValidResponse, fixedLines) ==
    IF lastValidResponse = 0 \/ heap[lastValidResponse].romanized_lyrics = 0
    THEN LET array == Allocate(heap, [items |-> fixedLines])
         IN  Allocate(array.heap, [romanized_lyrics |-> array.ref])
    ELSE LET mergedResponse == DeepCopy(heap, lastValidResponse)
             array == mergedResponse.heap[mergedResponse.ref].romanized_lyrics
         IN  [heap |-> [mergedResponse.heap EXCEPT ![array].items =
                           ApplyFixes(@, fixedLines, 1)],
              ref |-> mergedResponse.ref]

BaseLine(i) == [original_line_index |-> i - 1, text |-> 0]

\* The heaps the function is called on: no previous response, a response
\* without lines array, a response of 0..MaxMergeLines lines.
MergeHeaps ==
    {[heap |-> [r \in Refs |-> Null], lastValidResponse |-> 0],
     [heap |-> [r \in Refs |-> IF r = 1 THEN [romanized_lyrics |-> 0] ELSE Null],
      lastValidResponse |-> 1]}
    \cup {[heap |-> [r \in Refs |->
                       IF r = 1 THEN [romanized_lyrics |-> 2]
                       ELSE IF r = 2 THEN [items |-> [i \in 1..n |-> BaseLine(i)]]
                       ELSE Null],
           lastValidResponse |-> 1] : n \in 0..MaxMergeLines}

\* Fixed lines with indices inside and outside of every base; the text tells
\* the fixed lines apart.
FixedLineLists ==
    UNION {{[k \in 1..n |-> [original_line_index |-> index[k], text |-> k]] :
               index \in [1..n -> -1..MaxMergeLines]} : n \in 0..MaxFixedLines}

MergeCall ==
    /\ gem.pc = "idle"
    /\ \E h \in MergeHeaps, fixedLines \in FixedLineLists :
          gem' = [pc |-> "merge", heap |-> h.heap,
                  lastValidResponse |-> h.lastValidResponse,
                  fixedLines |-> fixedLines, before |-> h.heap, mergedResponse |-> 0]
    /\ UNCHANGED exceptGem

MergeReturn ==
    /\ gem.pc = "merge"
    /\ LET merged == MergeSelectiveFixesInPlace(gem.heap, gem.lastValidResponse,
                                                gem.fixedLines)
       IN  gem' = [gem EXCEPT !.pc = "merged", !.heap = merged.heap,
                              !.mergedResponse = merged.ref]
    /\ UNCHANGED exceptGem

NextMerge ==
    \/ MergeCall
    \/ MergeReturn

SpecMerge == InitGemini /\ [][NextMerge]_vars

(***************************************************************************)
(* ResponseValidator.validate over responses with every kind of flaw.       *)
(***************************************************************************)
MaxValidateLines == 2

ValidateInputs ==
    {[i \in 1..n |-> ConversationLine(i, i \in chunked)] :
        n \in 1..MaxValidateLines, chunked \in SUBSET (1..MaxValidateLines)}

ResponseChunk(chars, k) == [text |-> chars, chunkIndex |-> k]

\* The chunk arrays of a response line whose text is abcde or abcd: none, the
\* text in two chunks (as it is, in other case and spacing, with one, two of
\* five and one of four characters changed, one character short), an empty, a
\* blank or a missing chunk text, and one or three chunks in place of two.
ResponseChunks ==
    {Null}
    \cup {[items |-> [k \in 1..Len(texts) |-> ResponseChunk(texts[k], k - 1)]] :
             texts \in {<<>>,
                        <<Str(<<"a", "b">>), Str(<<"c", "d", "e">>)>>,
                        <<Str(<<"A", "b">>), Str(<<" ", "c", "d", "e">>)>>,
                        <<Str(<<"a", "b">>), Str(<<"c", "d", "x">>)>>,
                        <<Str(<<"a", "b">>), Str(<<"c", "x", "x">>)>>,
                        <<Str(<<"a", "b">>), Str(<<"c", "d">>)>>,
                        <<Str(<<"a", "b">>), Str(<<"c", "x">>)>>,
                        <<Str(<<"a", "b", "c", "d", "e">>), Str(<<>>)>>,
                        <<Str(<<"a", "b", "c", "d", "e">>), Str(<<" ">>)>>,
                        <<Str(<<"a", "b", "c", "d", "e">>), Null>>,
                        <<Str(<<"a", "b", "c", "d", "e">>)>>,
                        <<Str(<<"a", "b">>), Str(<<"c">>), Str(<<"d", "e">>)>>}}

ResponseTexts == {Null, Str(<<"a", "b", "c", "d", "e">>), Str(<<"a", "b", "c", "d">>)}

\* The lines a response may have at position i: with the right or a wrong
\* index, with or without a text, with or without chunks.
ResponseLinesAt(i) ==
    {[original_line_index |-> index, text |-> text, chunk |-> chunk] :
        index \in {i - 1, i}, text \in ResponseTexts, chunk \in ResponseChunks}

\* No response, a response without the lines array, and responses of
\* 0..MaxValidateLines lines.
ValidateResponses ==
    {Null, [other |-> TRUE], [romanized_lyrics |-> <<>>]}
    \cup {[romanized_lyrics |-> <<first>>] : first \in ResponseLinesAt(1)}
    \cup {[romanized_lyrics |-> <<first, second>>] :
             first \in ResponseLinesAt(1), second \in ResponseLinesAt(2)}

ValidateCall ==
    /\ gem.pc = "idle"
    /\ \E originalLyricsForApi \in ValidateInputs, geminiResponse \in ValidateResponses :
          gem' = [pc |-> "validate", originalLyricsForApi |-> originalLyricsForApi,
                  geminiResponse |-> geminiResponse]
    /\ UNCHANGED exceptGem

ValidateReturn ==
    /\ gem.pc = "validate"
    /\ gem' = [pc |-> "validated", originalLyricsForApi |-> gem.originalLyricsForApi,
               geminiResponse |-> gem.geminiResponse,
               validationResult |-> Validate(gem.originalLyricsForApi,
                                             gem.geminiResponse)]
    /\ UNCHANGED exceptGem

NextValidate ==
    \/ ValidateCall
    \/ ValidateReturn

SpecValidate == InitGemini /\ [][NextValidate]_vars

(***************************************************************************)
(* Content script: combineLyricsData over the result of translate          *)
(***************************************************************************)
LyricsTypes == {"Line", "Word"}

\* An array is its items in a record, or Null where there is none.
Array(items) == [items |-> items]

BaseSyllable(k) == [text |-> [syl |-> k], romanizedText |-> Null]

\* The lyrics the page holds for the lines that were sent to translate: the
\* lines of a Word document carry syllables, every second one an empty list.
BaseLyrics(type, lines) ==
    [type |-> type,
     data |-> [i \in 1..Len(lines) |->
                 [text |-> lines[i].text,
                  syllabus |-> IF type = "Line" THEN Null
                               ELSE IF i % 2 = 1
                               THEN Array(<<BaseSyllable(0), BaseSyllable(1)>>)
                               ELSE Array(<<>>),
                  translatedText |-> Null, romanizedText |-> Null]]]

RomanizationKinds == {"none", "chunk", "syllabus", "text", "empty"}

\* The romanization the page holds: none, or a document of n lines in the form
\* of one of the providers.
Romanization(kind, n) ==
    IF kind = "none" THEN Null
    ELSE [data |-> Array([i \in 1..n |->
            [text |-> IF kind = "empty" THEN EmptyStr ELSE [rom |-> i - 1],
             chunk |-> IF kind = "chunk" THEN Array(<<[text |-> [rom |-> i - 1]]>>)
                       ELSE Null,
             syllabus |-> IF kind = "syllabus"
                          THEN Array(<<[text |-> [syl |-> 0], romanizedText |-> EmptyStr],
                                       [text |-> [syl |-> 1],
                                        romanizedText |-> [rom |-> i - 1]]>>)
                          ELSE Null]])]

\* x?.[index] of an array that may be missing or too short.
At(array, index) ==
    IF array # Null /\ index \in 1..Len(array.items) THEN array.items[index] ELSE Null

NonEmpty(array) == array # Null /\ Len(array.items) > 0

CombineLine_FromTranslation(baseLyrics, line, translatedLine, romanizedLine) ==
    IF translatedLine = Null THEN line
    ELSE [line EXCEPT !.text = translatedLine.translatedText,
                      !.translatedText = translatedLine.translatedText]

\* Lines 37-69: the callback of map, for one line.
CombineLine(baseLyrics, line, translatedLine, romanizedLine) ==
    LET withTranslation ==
            IF translatedLine # Null /\ Truthy(translatedLine.translatedText)
            THEN [line EXCEPT !.translatedText = translatedLine.translatedText]
            ELSE line
        fromChunk ==
            Array([k \in 1..Len(line.syllabus.items) |->
                LET syllable == line.syllabus.items[k]
                    romanizedSyllable == At(romanizedLine.chunk, k)
                IN  [syllable EXCEPT !.romanizedText =
                        IF romanizedSyllable # Null /\ Truthy(romanizedSyllable.text)
                        THEN romanizedSyllable.text ELSE syllable.text]])
        fromSyllabus ==
            Array([k \in 1..Len(line.syllabus.items) |->
                LET syllable == line.syllabus.items[k]
                    romanizedSyllable == At(romanizedLine.syllabus, k)
                IN  [syllable EXCEPT !.romanizedText =
                        IF romanizedSyllable # Null
                              /\ Truthy(romanizedSyllable.romanizedText)
                        THEN romanizedSyllable.romanizedText ELSE syllable.text]])
    IN  IF romanizedLine = Null THEN withTranslation
        ELSE IF baseLyrics.type = "Word" /\ NonEmpty(line.syllabus)
        THEN IF NonEmpty(romanizedLine.chunk)
             THEN [withTranslation EXCEPT !.syllabus = fromChunk]
             ELSE IF NonEmpty(romanizedLine.syllabus)
             THEN [withTranslation EXCEPT !.syllabus = fromSyllabus]
             ELSE withTranslation
        ELSE IF Truthy(romanizedLine.text)
        THEN [withTranslation EXCEPT !.romanizedText = romanizedLine.text]
        ELSE withTranslation

\* Lines 29-73. The copy through JSON gives back the lines as they are: they
\* reached the page as a message, which holds nothing JSON cannot carry.
CombineLyricsData(baseLyrics, translation, romanization) ==
    LET translationData == IF translation = Null THEN Null ELSE translation.data
        romanizationData == IF romanization = Null THEN Null ELSE romanization.data
    IN  [baseLyrics EXCEPT !.data =
            [index \in 1..Len(baseLyrics.data) |->
                CombineLine(baseLyrics, baseLyrics.data[index],
                            At(translationData, index), At(romanizationData, index))]]

\* The page combines the lyrics it holds with the translation that came back
\* and the romanization it has.
CombineCall ==
    /\ tr.pc = "done"
    /\ gem.pc = "idle"
    /\ \E type \in LyricsTypes, translated \in BOOLEAN, kind \in RomanizationKinds,
          n \in {Len(tr.lines) - 1, Len(tr.lines)} :
          /\ n >= 0
          /\ kind = "none" => n = Len(tr.lines)
          /\ gem' = [pc |-> "combine",
                     baseLyrics |-> BaseLyrics(type, tr.lines),
                     translation |-> IF translated THEN [data |-> Array(tr.data)]
                                     ELSE Null,
                     romanization |-> Romanization(kind, n),
                     combinedLyrics |-> Null]
    /\ UNCHANGED exceptGem

CombineReturn ==
    /\ gem.pc = "combine"
    /\ gem' = [gem EXCEPT !.pc = "combined",
                          !.combinedLyrics =
                              CombineLyricsData(gem.baseLyrics, gem.translation,
                                                gem.romanization)]
    /\ UNCHANGED exceptGem

NextCombine ==
    \/ NextTranslate
    \/ CombineCall
    \/ CombineReturn

SpecCombine == InitTranslate /\ [][NextCombine]_vars

(***************************************************************************)
(* Content script: fetchAndDisplayLyrics and setCurrentDisplayModeAndRender *)
(***************************************************************************)
MaxInvocations == 3

\* A song as the page reports it: its key (title-artist-album, line 103) is
\* its name here, its media identifier videoId || songId (line 116).
PageSongs == {"A", "B"}

\* The modes the user chooses among and the settings enable.
DisplayModes == {"none", "translate", "both"}

\* Lines 80-93.
DetermineFinalDisplayMode(intendedMode, hasTranslation, hasRomanization) ==
    IF intendedMode = "both" /\ hasTranslation /\ hasRomanization THEN "both"
    ELSE IF intendedMode = "both" /\ hasTranslation THEN "translate"
    ELSE IF intendedMode = "both" /\ hasRomanization THEN "romanize"
    ELSE IF intendedMode = "translate" /\ hasTranslation THEN "translate"
    ELSE IF intendedMode = "romanize" /\ hasRomanization THEN "romanize"
    ELSE "none"

\* Lines 125-129.
ModeOfSettings(translationEnabled, romanizationEnabled) ==
    IF translationEnabled /\ romanizationEnabled THEN "both"
    ELSE IF translationEnabled THEN "translate"
    ELSE IF romanizationEnabled THEN "romanize"
    ELSE "none"

Invocation(currentSong, effectiveMode, pc, outcome) ==
    [pc |-> pc, currentSong |-> currentSong, localCurrentFetchMediaId |-> currentSong,
     effectiveMode |-> effectiveMode, finalMode |-> "none",
     superseded |-> FALSE, outcome |-> outcome]

\* History: the pending invocations for another media identifier have seen
\* currentFetchMediaId change during their await.
MarkSuperseded(invocations, mediaId) ==
    [i \in DOMAIN invocations |->
        IF invocations[i].pc # "returned"
           /\ invocations[i].localCurrentFetchMediaId # mediaId
        THEN [invocations[i] EXCEPT !.superseded = TRUE]
        ELSE invocations[i]]

\* Lines 140, 177, 205.
IsStale(p, localCurrentFetchMediaId) ==
    p.currentFetchMediaId # localCurrentFetchMediaId

\* Lines 103-134: the page p after a call of fetchAndDisplayLyrics, up to its
\* first await (or its return at line 107).
Begin(p, currentSong, isNewSong, forceReload, settingsMode) ==
    IF /\ p.lyricsFetchDebounceTimer
       /\ p.lastRequestedSongKey = currentSong
       /\ ~forceReload
       /\ p.currentDisplayMode = p.lastProcessedDisplayMode
    THEN [p EXCEPT !.invocations =
             Append(@, Invocation(currentSong, "none", "returned", "debounced"))]
    ELSE LET effectiveMode == IF isNewSong THEN settingsMode ELSE p.currentDisplayMode
         IN  [p EXCEPT !.lyricsFetchDebounceTimer = TRUE,
                       !.lastRequestedSongKey = currentSong,
                       !.currentFetchMediaId = currentSong,
                       !.display = NoDisplay,
                       !.currentDisplayMode = effectiveMode,
                       !.invocations =
                           Append(MarkSuperseded(@, currentSong),
                                  Invocation(currentSong, effectiveMode, "fetch",
                                             "pending"))]

\* The invocation i returns; its locals are gone.
End(p, i, outcome) ==
    [p EXCEPT !.invocations[i].pc = "returned", !.invocations[i].outcome = outcome,
              !.invocations[i].effectiveMode = "none",
              !.invocations[i].finalMode = "none"]

\* Lines 235-243.
Catch(p, i) ==
    LET q == [End(p, i, "error") EXCEPT !.currentDisplayMode = "none",
                                        !.lastProcessedDisplayMode = "none"]
    IN  IF p.currentFetchMediaId = p.invocations[i].currentSong
        THEN [q EXCEPT !.display = [kind |-> "error", by |-> i,
                                    song |-> p.invocations[i].currentSong,
                                    mode |-> "none"]]
        ELSE q

\* Lines 216-233.
Render(p, i, finalDisplayModeForRenderer) ==
    LET shown == [kind |-> "lyrics", by |-> i, song |-> p.invocations[i].currentSong,
                  mode |-> finalDisplayModeForRenderer]
    IN  [End(p, i, "displayed") EXCEPT
             !.display = shown,
             !.lastKnownSongInfo = p.invocations[i].currentSong,
             !.lastProcessedDisplayMode = finalDisplayModeForRenderer]

\* The page calls fetchAndDisplayLyrics: a new song, or a reload.
FetchAndDisplayLyrics ==
    /\ Len(page.invocations) < MaxInvocations
    /\ \E currentSong \in PageSongs, isNewSong, forceReload \in BOOLEAN,
          settingsMode \in DisplayModes :
          page' = Begin(page, currentSong, isNewSong, forceReload,
                        ModeOfSettings(settingsMode \in {"translate", "both"},
                                       settingsMode \in {"romanize", "both"}))
    /\ UNCHANGED exceptPage

\* Lines 250-261.
SetCurrentDisplayModeAndRender ==
    /\ Len(page.invocations) < MaxInvocations
    /\ \E mode \in DisplayModes, songInfoForRefetch \in PageSongs \cup {""} :
          LET p == [page EXCEPT !.currentDisplayMode = mode]
              songToRefetch == IF songInfoForRefetch # "" THEN songInfoForRefetch
                               ELSE page.lastKnownSongInfo
          IN  page' = IF songToRefetch # ""
                      THEN Begin(p, songToRefetch, FALSE, FALSE, "none")
                      ELSE [p EXCEPT !.currentDisplayMode = "none",
                                     !.display = [kind |-> "error", by |-> 0,
                                                  song |-> "", mode |-> "none"]]
    /\ UNCHANGED exceptPage

\* Lines 110-113: the debounce timer fires.
DebounceTimeout ==
    /\ page.lyricsFetchDebounceTimer
    /\ page' = [page EXCEPT !.lyricsFetchDebounceTimer = FALSE,
                            !.lastRequestedSongKey = ""]
    /\ UNCHANGED exceptPage

\* Lines 134-175: the answer to FETCH_LYRICS arrives, or sendMessage rejects.
FetchLyricsReturn(i) ==
    /\ i \in DOMAIN page.invocations
    /\ page.invocations[i].pc = "fetch"
    /\ \E originalLyricsResponse \in {"success", "failure", "throws"} :
          page' =
            IF originalLyricsResponse = "throws" THEN Catch(page, i)
            ELSE IF IsStale(page, page.invocations[i].localCurrentFetchMediaId)
            THEN End(page, i, "aborted")
            ELSE IF originalLyricsResponse = "failure"
            THEN [End(page, i, "notFound") EXCEPT
                     !.display = [kind |-> "notFound", by |-> i,
                                  song |-> page.invocations[i].currentSong,
                                  mode |-> "none"]]
            ELSE [page EXCEPT !.invocations[i].pc = "additional"]
    /\ UNCHANGED exceptPage

\* Lines 175-233: the answers to the TRANSLATE_LYRICS messages arrive, or one
\* of them rejects; the segments are fetched when line 199 asks for them.
AdditionalReturn(i) ==
    /\ i \in DOMAIN page.invocations
    /\ page.invocations[i].pc = "additional"
    /\ \E throws, sponsorBlock, translationOk, hasRomanization \in BOOLEAN :
          \* largerTextMode may ask for the romanization in every mode (line 157)
          LET effectiveMode == page.invocations[i].effectiveMode
              needsTranslation == effectiveMode \in {"translate", "both"}
              hasTranslation == needsTranslation /\ translationOk
              finalDisplayModeForRenderer ==
                  DetermineFinalDisplayMode(effectiveMode, hasTranslation,
                                            hasRomanization)
          IN  page' =
                IF throws THEN Catch(page, i)
                ELSE IF IsStale(page, page.invocations[i].localCurrentFetchMediaId)
                THEN End(page, i, "aborted")
                ELSE IF sponsorBlock
                THEN [page EXCEPT !.invocations[i].pc = "sponsor",
                                  !.invocations[i].finalMode =
                                      finalDisplayModeForRenderer]
                ELSE Render(page, i, finalDisplayModeForRenderer)
    /\ UNCHANGED exceptPage

\* Lines 200-233: the answer to FETCH_SPONSOR_SEGMENTS arrives, or rejects.
SponsorReturn(i) ==
    /\ i \in DOMAIN page.invocations
    /\ page.invocations[i].pc = "sponsor"
    /\ \E throws \in BOOLEAN :
          page' =
            IF throws THEN Catch(page, i)
            ELSE IF IsStale(page, page.invocations[i].localCurrentFetchMediaId)
            THEN End(page, i, "aborted")
            ELSE Render(page, i, page.invocations[i].finalMode)
    /\ UNCHANGED exceptPage

InitPage == InitServicesIdle /\ EnginesIdle

NextPage ==
    \/ FetchAndDisplayLyrics
    \/ SetCurrentDisplayModeAndRender
    \/ DebounceTimeout
    \/ \E i \in 1..MaxInvocations : FetchLyricsReturn(i)
    \/ \E i \in 1..MaxInvocations : AdditionalReturn(i)
    \/ \E i \in 1..MaxInvocations : SponsorReturn(i)

SpecPage == InitPage /\ [][NextPage]_vars

(***************************************************************************)
(* DatabaseManager over IndexedDB: every operation opens the database, then *)
(* issues its request in a transaction; the request completes later.        *)
(***************************************************************************)
MaxOps == 3

StoreOperations == {"get", "set", "delete", "getAll", "clear", "estimateSize"}

Writes == {"set", "delete", "clear"}

StoreValues == {1, 2}

\* The store after the request of the operation op was carried out.
Applied(data, op) ==
    IF op.kind = "set" THEN [data EXCEPT ![op.key] = op.value]
    ELSE IF op.kind = "delete" THEN [data EXCEPT ![op.key] = 0]
    ELSE IF op.kind = "clear" THEN [k \in StoreKeys |-> 0]
    ELSE data

\* What a read resolves with.
ReadResult(data, op) ==
    IF op.kind = "get" THEN data[op.key]
    ELSE IF op.kind = "getAll" THEN {k \in StoreKeys : data[k] # 0}
    ELSE Cardinality({k \in StoreKeys : data[k] # 0})

\* Lines 33, 45, 52, 59, 71, 78: an operation is called; it awaits open().
StoreCall ==
    /\ Len(store.ops) < MaxOps
    /\ \E kind \in StoreOperations, key \in StoreKeys, value \in StoreValues :
          store' = [store EXCEPT !.ops =
              Append(@, [kind |-> kind,
                         key |-> IF kind \in {"get", "set", "delete"} THEN key ELSE "",
                         value |-> IF kind = "set" THEN value ELSE 0,
                         pc |-> "open", promise |-> "pending", result |-> Null,
                         ioFailed |-> FALSE])]
    /\ UNCHANGED exceptStore

\* Lines 15-31 and the body of the operation up to its request: open() fails
\* (line 29), or the transaction or the request cannot be created and throws,
\* or the request is issued. A read returns a promise that waits for the
\* request (lines 35-42, 61-68, 80-119); set, delete and clear return once the
\* request is issued (lines 49, 56, 75).
OpenReturn(i) ==
    /\ i \in DOMAIN store.ops
    /\ store.ops[i].pc = "open"
    /\ \E outcome \in {"success", "error", "throws"} :
          store' =
            IF outcome = "success"
            THEN [store EXCEPT !.ops[i].pc = "request",
                               !.ops[i].promise =
                                   IF store.ops[i].kind \in Writes
                                   THEN "fulfilled" ELSE "pending"]
            ELSE [store EXCEPT !.ops[i].pc = "settled",
                               !.ops[i].promise = "rejected",
                               !.ops[i].ioFailed = TRUE]
    /\ UNCHANGED exceptStore

\* The requests are carried out in the order in which they were issued.
FirstRequest(i) ==
    /\ store.ops[i].pc = "request"
    /\ \A j \in 1..(i - 1) : store.ops[j].pc # "request"

\* The request of the operation completes: onsuccess or onerror.
RequestReturn(i) ==
    /\ i \in DOMAIN store.ops
    /\ FirstRequest(i)
    /\ \E outcome \in {"success", "error"} :
          LET op == store.ops[i]
          IN  store' =
                IF outcome = "success"
                THEN [store EXCEPT
                         !.data = Applied(@, op),
                         !.ops[i].pc = "settled",
                         !.ops[i].promise = IF op.kind \in Writes THEN @ ELSE "fulfilled",
                         !.ops[i].result = IF op.kind \in Writes THEN @
                                           ELSE [value |-> ReadResult(store.data, op)]]
                ELSE [store EXCEPT
                         !.ops[i].pc = "settled",
                         !.ops[i].promise = IF op.kind \in Writes THEN @ ELSE "rejected",
                         !.ops[i].ioFailed = TRUE]
    /\ UNCHANGED exceptStore

InitStore == InitServicesIdle /\ EnginesIdle

NextStore ==
    \/ StoreCall
    \/ \E i \in 1..MaxOps : OpenReturn(i)
    \/ \E i \in 1..MaxOps : RequestReturn(i)

SpecStore == InitStore /\ [][NextStore]_vars

(***************************************************************************)
(* MessageHandler: one response per command. FETCH_LYRICS and               *)
(* TRANSLATE_LYRICS are the calls of the two services above; the other      *)
(* commands work on the memory state and the persistent collections.        *)
(***************************************************************************)
MaxCommands == 1

MaxFetches == 1

LocalSongIds == {"L1", "L9"}

UploadedDoc == [src |-> "upload"]

MESSAGE_TYPES == {"FETCH_LYRICS", "RESET_CACHE", "GET_CACHED_SIZE", "TRANSLATE_LYRICS",
                  "FETCH_SPONSOR_SEGMENTS", "UPLOAD_LOCAL_LYRICS", "GET_LOCAL_LYRICS_LIST",
                  "DELETE_LOCAL_LYRICS", "FETCH_LOCAL_LYRICS", "UPDATE_LOCAL_LYRICS"}

\* Properties every object literal inherits from Object.prototype.
InheritedNames == {"constructor"}

\* The commands that arrive besides the calls of the two services: the known
\* types, an unknown type, an unknown type that names an inherited property,
\* and no type.
Commands ==
    (MESSAGE_TYPES \ {"FETCH_LYRICS", "TRANSLATE_LYRICS"}) \cup {"PING", ""} \cup InheritedNames

Messages ==
    {[type |-> t,
      songId |-> IF t \in {"UPDATE_LOCAL_LYRICS", "DELETE_LOCAL_LYRICS", "FETCH_LOCAL_LYRICS"}
                 THEN id ELSE "",
      songInfo |-> IF t \in {"UPLOAD_LOCAL_LYRICS", "UPDATE_LOCAL_LYRICS"}
                   THEN si ELSE Null] :
        t \in Commands, id \in LocalSongIds, si \in {Null, Song1}}

\* What an awaited call rejects with: a store rejects with the error of its
\* request (database.js lines 29, 41, 67, 111, 118), a network service with an
\* Error or with a value that is not an Error.
StoreError == [instanceofError |-> TRUE, message |-> "StoreError"]

Rejections == {StoreError, [instanceofError |-> FALSE, message |-> ""]}

Fulfilled == [fulfilled |-> TRUE]

StoreSettlements == {Fulfilled, StoreError}

Settlements(type) ==
    IF type = "FETCH_SPONSOR_SEGMENTS" THEN {Fulfilled} \cup Rejections
    ELSE StoreSettlements

\* Lines 647-649 (and 445): error.message of an Error, String(error) otherwise.
ToErrorMessage(error) ==
    [typeof |-> "string",
     value |-> IF error.instanceofError THEN error.message ELSE "null"]

Failure(errorMessage) == [success |-> FALSE, error |-> errorMessage]

Success(body) == [success |-> TRUE, body |-> body]

Text_(value) == [typeof |-> "string", value |-> value]

\* Line 446 and the lookup of line 441: handlers[message.type] finds the
\* handler of a known type, an inherited property of the object literal, or
\* nothing.
Lookup(type) ==
    IF type \in MESSAGE_TYPES THEN "handler"
    ELSE IF type \in InheritedNames THEN "inherited"
    ELSE "undefined"

\* state.clear(): the memory cache and the in-flight registry are emptied.
StateClear ==
    /\ cache' = [k \in AllKeys |-> Null]
    /\ ongoingFetches' = [k \in AllKeys |-> 0]

\* The command as handle() leaves it: answered at once, thrown out of
\* handle() (a value that is no handler is called, lines 443-444), or waiting
\* for the first await of its handler.
Handled(message, now) ==
    LET m == [type |-> message.type, songId |-> message.songId,
              songInfo |-> message.songInfo, pc |-> "done", responses |-> <<>>,
              escaped |-> FALSE, record |-> Null,
              clears |-> [lyricsDB |-> "none", translationsDB |-> "none"]]
    IN  IF message.type = ""
        THEN [m EXCEPT !.responses = <<Failure(Text_("Invalid message: missing type"))>>]
        ELSE IF Lookup(message.type) = "undefined"
        THEN [m EXCEPT !.responses = <<Failure(Text_("Unknown message type"))>>]
        ELSE IF Lookup(message.type) = "inherited"
        THEN [m EXCEPT !.escaped = TRUE]
        ELSE IF message.type = "RESET_CACHE"
        THEN [m EXCEPT !.pc = "clear",
                       !.clears = [lyricsDB |-> "open", translationsDB |-> "open"]]
        ELSE IF message.type = "UPLOAD_LOCAL_LYRICS"
        THEN IF message.songInfo = Null
             THEN [m EXCEPT !.responses = <<Failure(Text_("TypeError"))>>]
             ELSE [m EXCEPT !.pc = "set",
                            !.record = [songId |-> message.songInfo.title \o "-"
                                                   \o message.songInfo.artist \o "-"
                                                   \o ToString(now),
                                        title |-> message.songInfo.title,
                                        artist |-> message.songInfo.artist,
                                        lyrics |-> UploadedDoc, timestamp |-> now]]
        ELSE IF message.type \in {"UPDATE_LOCAL_LYRICS", "FETCH_LOCAL_LYRICS"}
        THEN [m EXCEPT !.pc = "get"]
        ELSE IF message.type = "DELETE_LOCAL_LYRICS"
        THEN [m EXCEPT !.pc = "delete"]
        ELSE [m EXCEPT !.pc = "await"]

\* Lines 421-455 with the synchronous start of the handler: resetCache clears
\* the memory state (line 507), uploadLocalLyrics reads the clock (lines 546
\* and 551).
Handle ==
    /\ Len(handler.msgs) < MaxCommands
    /\ \E message \in Messages, now \in Now :
          /\ handler' = [handler EXCEPT !.msgs = Append(@, Handled(message, now))]
          /\ IF message.type = "RESET_CACHE"
             THEN StateClear ELSE UNCHANGED <<cache, ongoingFetches>>
          /\ IF message.type = "UPLOAD_LOCAL_LYRICS" /\ message.songInfo # Null
             THEN clock' = now ELSE now = clock /\ UNCHANGED clock
    /\ UNCHANGED <<settings, lyricsDB, translationsDB, localLyricsDB, call, fetch,
                   trans, initialDB, exceptHandler>>

Responded(m, response) ==
    [m EXCEPT !.pc = "done", !.responses = Append(@, response)]

\* A write request on the collection was issued and has not completed: the
\* later transactions on the collection wait for it.
HasPendingWrite(storeName) ==
    \E r \in 1..Len(handler.requests) : handler.requests[r].store = storeName

Request(storeName, kind, record, by) ==
    [store |-> storeName, kind |-> kind, record |-> record, by |-> by]

\* database.js lines 71-76 under Promise.all (lines 508-511): open() of one of
\* the two collections settles; clear() issues its request and is fulfilled,
\* or is rejected. The handler goes on at the first rejection, or when both
\* are fulfilled.
ClearReturn(i, storeName) ==
    /\ i \in DOMAIN handler.msgs
    /\ handler.msgs[i].clears[storeName] = "open"
    /\ \E settlement \in StoreSettlements :
          LET m == handler.msgs[i]
              clears == [m.clears EXCEPT ![storeName] =
                            IF settlement = Fulfilled THEN "issued" ELSE "failed"]
              cleared == [m EXCEPT !.clears = clears]
          IN  handler' = [handler EXCEPT
                  !.requests = IF settlement = Fulfilled
                               THEN Append(@, Request(storeName, "clear", Null, i))
                               ELSE @,
                  !.msgs[i] =
                     IF m.pc = "done" THEN cleared
                     ELSE IF settlement # Fulfilled
                     THEN Responded(cleared, Failure(ToErrorMessage(settlement)))
                     ELSE IF \A n \in DOMAIN clears : clears[n] = "issued"
                     THEN Responded(cleared, Success("Cache reset successfully"))
                     ELSE cleared]
    /\ UNCHANGED <<serviceVars, exceptHandler>>

Written_DropOthers(collection, request) ==
    IF request.store = "localLyricsDB"
    THEN IF request.kind = "set" THEN {request.record} ELSE {}
    ELSE [k \in DOMAIN collection |-> Null]

\* The collection after the request was carried out.
Written(collection, request) ==
    IF request.store = "localLyricsDB"
    THEN {r \in collection : r.songId # request.record.songId}
         \cup (IF request.kind = "set" THEN {request.record} ELSE {})
    ELSE [k \in DOMAIN collection |-> Null]

\* The oldest write request completes: it is carried out, or it fails and the
\* collection stays as it was. Nobody listens (database.js lines 49, 56, 75).
WriteReturn ==
    /\ handler.requests # <<>>
    /\ \E outcome \in StoreOutcomes :
          LET request == Head(handler.requests)
              done == outcome = "ok"
          IN  /\ handler' = [handler EXCEPT
                     !.requests = Tail(@),
                     !.msgs[request.by].clears =
                         IF request.kind = "clear"
                         THEN [@ EXCEPT ![request.store] = IF done THEN "done" ELSE "lost"]
                         ELSE @]
              /\ lyricsDB' = IF done /\ request.store = "lyricsDB"
                             THEN Written(lyricsDB, request) ELSE lyricsDB
              /\ translationsDB' = IF done /\ request.store = "translationsDB"
                                   THEN Written(translationsDB, request) ELSE translationsDB
              /\ localLyricsDB' = IF done /\ request.store = "localLyricsDB"
                                  THEN Written(localLyricsDB, request) ELSE localLyricsDB
    /\ UNCHANGED <<clock, settings, cache, ongoingFetches, call, fetch, trans,
                   initialDB, exceptHandler>>

Count(collection) == Cardinality({k \in DOMAIN collection : collection[k] # Null})

\* Lines 520-537, 494-503, 561-575: the one await of getCacheSize,
\* fetchSponsorSegments and getLocalLyricsList settles.
AwaitReturn(i) ==
    /\ i \in DOMAIN handler.msgs
    /\ handler.msgs[i].pc = "await"
    /\ LET m == handler.msgs[i]
       IN  /\ m.type = "GET_CACHED_SIZE" => ~HasPendingWrite("lyricsDB") /\ ~HasPendingWrite("translationsDB")
           /\ m.type = "GET_LOCAL_LYRICS_LIST" => ~HasPendingWrite("localLyricsDB")
           /\ \E settlement \in Settlements(m.type) :
                 handler' = [handler EXCEPT !.msgs[i] =
                    IF settlement # Fulfilled
                    THEN Responded(m, Failure(ToErrorMessage(settlement)))
                    ELSE IF m.type = "GET_CACHED_SIZE"
                    THEN Responded(m, Success([cacheCount |->
                                         Count(lyricsDB) + Count(translationsDB)]))
                    ELSE IF m.type = "GET_LOCAL_LYRICS_LIST"
                    THEN Responded(m, Success({[songId |-> r.songId, title |-> r.title,
                                                artist |-> r.artist,
                                                timestamp |-> r.timestamp] :
                                                  r \in localLyricsDB}))
                    ELSE Responded(m, Success("segments"))]
    /\ UNCHANGED <<serviceVars, exceptHandler>>

\* The record of the songId, or nothing.
LocalGet(songId) ==
    IF \E r \in localLyricsDB : r.songId = songId
    THEN CHOOSE r \in localLyricsDB : r.songId = songId
    ELSE Null

\* Lines 577-592: the record as updateLocalLyrics rewrites it.
UpdatedRecord(m, existingLyrics, now) ==
    [songId |-> m.songId,
     title |-> IF m.songInfo # Null THEN m.songInfo.title ELSE existingLyrics.title,
     artist |-> IF m.songInfo # Null THEN m.songInfo.artist ELSE existingLyrics.artist,
     lyrics |-> UploadedDoc,
     timestamp |-> IF existingLyrics.timestamp # 0 THEN existingLyrics.timestamp ELSE now]

\* Lines 579-583 and 627-637: localLyricsDB.get settles in updateLocalLyrics
\* or fetchLocalLyrics.
GetReturn(i) ==
    /\ i \in DOMAIN handler.msgs
    /\ handler.msgs[i].pc = "get"
    /\ ~HasPendingWrite("localLyricsDB")
    /\ \E settlement \in StoreSettlements, now \in Now :
          LET m == handler.msgs[i]
              existingLyrics == LocalGet(m.songId)
              readsClock == /\ settlement = Fulfilled /\ existingLyrics # Null
                            /\ m.type = "UPDATE_LOCAL_LYRICS"
                            /\ existingLyrics.timestamp = 0
          IN  /\ IF readsClock THEN clock' = now ELSE now = clock /\ UNCHANGED clock
              /\ handler' = [handler EXCEPT !.msgs[i] =
                    IF settlement # Fulfilled
                    THEN Responded(m, Failure(ToErrorMessage(settlement)))
                    ELSE IF existingLyrics = Null
                    THEN Responded(m, Failure(Text_("No lyrics found")))
                    ELSE IF m.type = "FETCH_LOCAL_LYRICS"
                    THEN Responded(m, Success([lyrics |-> existingLyrics.lyrics,
                                               title |-> existingLyrics.title]))
                    ELSE [m EXCEPT !.pc = "set",
                                   !.record = UpdatedRecord(m, existingLyrics, now)]]
    /\ UNCHANGED <<settings, cache, ongoingFetches, lyricsDB, translationsDB,
                   localLyricsDB, call, fetch, trans, initialDB, exceptHandler>>

\* Lines 547-553, 592-599 and 613-614: localLyricsDB.set or delete settles:
\* the request is issued and the handler answers, or open() failed.
LocalWriteReturn(i) ==
    /\ i \in DOMAIN handler.msgs
    /\ handler.msgs[i].pc \in {"set", "delete"}
    /\ \E settlement \in StoreSettlements :
          LET m == handler.msgs[i]
              record == IF m.pc = "set" THEN m.record ELSE [songId |-> m.songId]
          IN  handler' = [handler EXCEPT
                  !.requests = IF settlement = Fulfilled
                               THEN Append(@, Request("localLyricsDB", m.pc, record, i))
                               ELSE @,
                  !.msgs[i] =
                     IF settlement = Fulfilled
                     THEN Responded(m, Success([songId |-> record.songId]))
                     ELSE Responded(m, Failure(ToErrorMessage(settlement)))]
    /\ UNCHANGED <<serviceVars, exceptHandler>>

\* Lines 462-492: getOrFetch of the caller has settled; fetchLyrics or
\* translateLyrics answers.
Reply(c) ==
    /\ handler.replies[c] = <<>>
    /\ \/ call[c].mode = "lyrics" /\ LyricsSettled(c)
       \/ call[c].mode = "trans" /\ TransSettled(c)
    /\ LET result == IF call[c].mode = "lyrics" THEN LyricsResult(c) ELSE TransResult(c)
       IN  handler' = [handler EXCEPT !.replies[c] =
              <<IF IsError(result)
                THEN Failure(ToErrorMessage([instanceofError |-> TRUE,
                                             message |-> result.error]))
                ELSE Success(result)>>]
    /\ UNCHANGED <<serviceVars, exceptHandler>>

\* A started process over collections that hold a record of the song from an
\* earlier session, with and without local lyrics.
InitHandler ==
    /\ InitTrans
    /\ settings.cacheStrategy = "aggressive"
    /\ \A k \in LyricsKeys : lyricsDB[k] # Null
    /\ \A k \in TransKeys : translationsDB[k] # Null

NextHandler ==
    \/ Handle
    \/ \E i \in 1..MaxCommands, storeName \in {"lyricsDB", "translationsDB"} :
          ClearReturn(i, storeName)
    \/ WriteReturn
    \/ \E i \in 1..MaxCommands : AwaitReturn(i)
    \/ \E i \in 1..MaxCommands : GetReturn(i)
    \/ \E i \in 1..MaxCommands : LocalWriteReturn(i)
    \/ \E c \in 1..MaxFetches :
          \/ Reply(c)
          \/ FetchLyrics(c)
          \/ GetFromDBSettings(c)
          \/ ~HasPendingWrite("lyricsDB") /\ LyricsDBGet(c)
          \/ GetFromDBCheck(c)
          \/ ~HasPendingWrite("lyricsDB") /\ LyricsDBDelete(c)
          \/ ~HasPendingWrite("localLyricsDB") /\ CheckLocalLyrics(c)
          \/ FetchSettings(c)
          \/ ProviderReturn(c)
          \/ SubtitleReturn(c)
          \/ ~HasPendingWrite("lyricsDB") /\ LyricsDBSet(c)
          \/ TranslateLyrics(c)
          \/ AfterLyrics(c)
          \/ ~HasPendingWrite("translationsDB") /\ TransDBGet(c)
          \/ GetCachedCheck(c)
          \/ ~HasPendingWrite("translationsDB") /\ TransDBDelete(c)
          \/ PerformReturn(c)
          \/ ~HasPendingWrite("translationsDB") /\ TransDBSet(c)

SpecHandler == InitHandler /\ [][NextHandler]_vars

(***************************************************************************)
(* A page that asks for the lyrics of a song, then sends one command, then *)
(* asks again: each request is sent once the one before has been answered  *)
(* and the writes it issued have completed.                                *)
(***************************************************************************)
Answered ==
    /\ handler.msgs # <<>>
    /\ \A i \in DOMAIN handler.msgs : handler.msgs[i].pc = "done"
    /\ handler.requests = <<>>

InitLocal ==
    /\ InitTrans
    /\ \A k \in LyricsKeys : lyricsDB[k] = Null
    /\ \A k \in TransKeys : translationsDB[k] = Null

NextLocal ==
    \/ LyricsSettled(1) /\ Handle
    \/ \E i \in 1..MaxCommands, storeName \in {"lyricsDB", "translationsDB"} :
          ClearReturn(i, storeName)
    \/ WriteReturn
    \/ \E i \in 1..MaxCommands : AwaitReturn(i)
    \/ \E i \in 1..MaxCommands : GetReturn(i)
    \/ \E i \in 1..MaxCommands : LocalWriteReturn(i)
    \/ handler.msgs = <<>> /\ FetchLyrics(1)
    \/ Answered /\ FetchLyrics(2)
    \/ \E c \in Callers :
          \/ Reply(c)
          \/ GetFromDBSettings(c)
          \/ ~HasPendingWrite("lyricsDB") /\ LyricsDBGet(c)
          \/ GetFromDBCheck(c)
          \/ ~HasPendingWrite("lyricsDB") /\ LyricsDBDelete(c)
          \/ ~HasPendingWrite("localLyricsDB") /\ CheckLocalLyrics(c)
          \/ FetchSettings(c)
          \/ ProviderReturn(c)
          \/ SubtitleReturn(c)
          \/ ~HasPendingWrite("lyricsDB") /\ LyricsDBSet(c)

SpecLocal == InitLocal /\ [][NextLocal]_vars

(***************************************************************************)
(* Properties                                                              *)
(***************************************************************************)
Pending(op) == op.pc \notin {"none", "fulfilled", "rejected"}

PendingFetches(k) == {c \in Callers : Pending(fetch[c]) /\ fetch[c].key = k}

PendingTranslations(k) == {c \in Callers : Pending(trans[c]) /\ trans[c].key = k}

PendingCount(k) == Cardinality(PendingFetches(k)) + Cardinality(PendingTranslations(k))

Registered(k, id) == IF k \in LyricsKeys THEN fetch[id] ELSE trans[id]

FetchRuns == {c \in Callers : fetch[c].pc # "none"}

TransformRuns == {c \in Callers : trans[c].pc # "none"}

NoForcedCall == \A c \in Callers : ~call[c].force

EmptyStart ==
    /\ \A k \in LyricsKeys : initialDB.lyrics[k] = Null
    /\ \A k \in TransKeys : initialDB.translations[k] = Null
    /\ localLyricsDB = {}

IsPrefix(s, t) == Len(s) <= Len(t) /\ \A i \in 1..Len(s) : s[i] = t[i]

\* C1: starting from empty memory, persistent and local caches, concurrent
\* getOrFetch calls for the same song with forceReload=false run fetchNewLyrics
\* exactly once, and all of them resolve to the same {lyrics, version} (stated
\* here for the fetches that do not fail).
C1_SingleFetch ==
    (EmptyStart /\ NoForcedCall /\ \A c \in Callers : fetch[c].pc # "rejected") =>
        /\ \A k \in LyricsKeys : Cardinality({c \in FetchRuns : fetch[c].key = k}) <= 1
        /\ \A c, d \in Callers :
              (/\ LyricsSettled(c) /\ LyricsSettled(d)
               /\ ~IsError(LyricsResult(c)) /\ ~IsError(LyricsResult(d))
               /\ call[c].song = call[d].song)
                  => LyricsResult(c) = LyricsResult(d)

\* C2: concurrent TranslationService.getOrFetch calls with forceReload=false
\* have at most one transformation of their key outstanding at any time, and all
\* of them resolve to the same translated document.
C2_SingleTransformation ==
    NoForcedCall =>
        /\ \A k \in TransKeys : Cardinality(PendingTranslations(k)) <= 1
        /\ \A c, d \in Callers :
              (/\ call[c].mode = "trans" /\ call[d].mode = "trans"
               /\ TransSettled(c) /\ TransSettled(d)
               /\ ~IsError(TransResult(c)) /\ ~IsError(TransResult(d))
               /\ TKey(call[c]) = TKey(call[d]))
                  => TransResult(c) = TransResult(d)

\* C3: for every key at most one pending operation is registered, and a caller
\* that reaches the in-flight step while the key has an entry joins it: the
\* entry is never replaced by a new operation, whatever the forceReload flag.
C3_JoinNeverOverwrite ==
    [][\A k \in AllKeys :
          /\ PendingCount(k)' <= 1
          /\ ongoingFetches[k] # 0 => ongoingFetches'[k] \in {0, ongoingFetches[k]}]_vars

\* C4: the entry of a registered operation is removed exactly when that
\* operation settles, on success and on failure, so that a key without a
\* pending operation has no entry.
C4_RemovedAtSettlement ==
    [][\A k \in AllKeys :
          /\ (ongoingFetches[k] # 0 /\ ongoingFetches'[k] # ongoingFetches[k]) =>
                LET id == ongoingFetches[k]
                IN  /\ Pending(Registered(k, id))
                    /\ Settled(IF k \in LyricsKeys THEN fetch'[id] ELSE trans'[id])
          /\ (PendingCount(k)' = 0 => ongoingFetches'[k] = 0)]_vars

\* C5: a translation served from the memory cache or from the persistent
\* translation collection always carries the version of the base lyrics
\* resolved in the same call.
C5_NoStaleServed ==
    \A c \in Callers :
        (call[c].pc = "tDone" /\ call[c].source \in {"memory", "db"}) =>
            call[c].served = call[c].originalVersion

C5_Witness ==
    \E c \in Callers :
        /\ call[c].pc = "tDone"
        /\ call[c].source \in {"memory", "db"}
        /\ call[c].originalVersion \in 1..MaxClock
        /\ initialDB.translations[TKey(call[c])] # Null

\* C6: when the cache check of a call finds a record of another version than
\* the base lyrics, that record is gone from the memory cache and from the
\* persistent translation collection once the check has completed.
C6_StalePurged ==
    [][\A c \in Callers :
          (/\ call[c].pc = "tDbDelete"
           /\ call'[c].pc # "tDbDelete"
           /\ call'[c].source # "error") =>
              /\ cache'[TKey(call[c])] # call[c].dbResult
              /\ translationsDB'[TKey(call[c])] # call[c].dbResult]_vars

StageOrder == <<"memory", "persistent", "local", "inflight", "provider">>

\* C8: without forceReload the sources are consulted in the order memory cache,
\* persistent cache, local-override store, in-flight registry, provider chain,
\* and a hit ends the lookup with no provider call; with forceReload nothing is
\* taken from the memory cache, the persistent cache or the local-override step.
C8_LookupOrder ==
    \A c \in Callers :
        /\ ~call[c].force => IsPrefix(call[c].consulted, StageOrder)
        /\ call[c].force => IsPrefix(call[c].consulted, <<"inflight", "provider">>)
        /\ call[c].force => call[c].source \notin {"memory", "persistent", "local"}
        /\ call[c].source = "memory" =>
              call[c].consulted = <<"memory">> /\ fetch[c].pc = "none"
        /\ call[c].source = "persistent" =>
              call[c].consulted = <<"memory", "persistent">> /\ fetch[c].pc = "none"
        /\ call[c].source = "local" =>
              call[c].consulted = <<"memory", "persistent", "local">> /\ fetch[c].pc = "none"

C8_Witness ==
    \E c, d \in Callers :
        /\ call[c].source = "memory"
        /\ call[d].force /\ LyricsSettled(d) /\ LyricsSource(d) = "fetch"

\* C9: under cacheStrategy none the persistent lyrics collection is neither
\* read nor written by getOrFetch, so it stays as it was.
C9_NoneBypassesStore ==
    settings.cacheStrategy = "none" =>
        /\ lyricsDB = initialDB.lyrics
        /\ \A c \in Callers :
              /\ call[c].pc \notin {"dbGet", "dbCheck", "dbDelete"}
              /\ fetch[c].pc # "dbSet"

C9_Witness ==
    /\ settings.cacheStrategy = "none"
    /\ \E c \in Callers :
          /\ fetch[c].pc = "fulfilled"
          /\ initialDB.lyrics[fetch[c].key] # Null
          /\ cache[fetch[c].key] = fetch[c].result

FullChain(songInfo) ==
    GetProviderOrder(settings) \o
        (IF songInfo.videoId # "" /\ songInfo.subtitle THEN <<"youtube">> ELSE <<>>)

\* C10: the failure of one provider never fails the fetch by itself: a fetch
\* fails in the chain only after every provider of the chain and the subtitle
\* fallback have been tried.
C10_ChainExhausted ==
    \A c \in Callers :
        (fetch[c].pc = "rejected" /\ fetch[c].result.error # "StoreError") =>
            fetch[c].calls = FullChain(fetch[c].song)

AllEmpty(answers) == \A i \in 1..Len(answers) : answers[i] = "empty"

NotFound == [error |-> "NotFound"]

\* C11: when every provider of the chain has answered with an empty document
\* and the subtitle fallback is unavailable or empty too, the fetch and every
\* getOrFetch call that waits for it fail with the not-found error, and no step
\* of such a fetch writes the memory cache or the persistent lyrics collection.
C11_NotFoundNoEntry ==
    [][\A c \in Callers :
          (fetch'[c] # fetch[c] /\ AllEmpty(fetch'[c].answers)) =>
              /\ cache' = cache
              /\ lyricsDB' = lyricsDB
              /\ fetch'[c].calls = FullChain(fetch'[c].song) =>
                    /\ fetch'[c].pc = "rejected"
                    /\ fetch'[c].result = NotFound
                    /\ \A d \in Callers :
                          (call'[d].pc = "awaitFetch" /\ call'[d].waitsOn = c) =>
                              LyricsSettled(d)' /\ LyricsResult(d)' = NotFound]_vars

C11_Witness ==
    \E c, d \in Callers :
        /\ fetch[c].pc = "rejected" /\ fetch[c].result = NotFound
        /\ fetch[c].song = Song2 /\ cache[fetch[c].key] = Null
        /\ fetch[d].pc = "rejected" /\ fetch[d].result = NotFound
        /\ fetch[d].song = Song1 /\ fetch[d].answers[Len(fetch[d].answers)] = "empty"
        /\ Len(fetch[d].answers) = Len(fetch[c].answers) + 1

LyricsProviders == {"kpoe", "customKpoe", "lrclib", "local"}

Occurrences(x, s) == Cardinality({i \in 1..Len(s) : s[i] = x})

\* C12: whatever the settings, the provider chain starts with the preferred
\* provider (the default provider kpoe when the preference is not a lyrics
\* provider), holds every lyrics provider exactly once, and never holds gemini
\* or google.
C12_ProviderOrder ==
    LET order == GetProviderOrder(settings)
    IN  /\ order[1] = (IF settings.lyricsProvider \in LyricsProviders
                       THEN settings.lyricsProvider ELSE "kpoe")
        /\ \A p \in LyricsProviders : Occurrences(p, order) = 1
        /\ \A i \in 1..Len(order) : order[i] \in LyricsProviders
        /\ \A c \in Callers : IsPrefix(fetch[c].calls, FullChain(fetch[c].song))

C12_Witness ==
    \E c \in Callers :
        /\ settings.lyricsProvider = "gemini"
        /\ fetch[c].pc = "subtitle"
        /\ fetch[c].calls = <<"kpoe", "customKpoe", "lrclib", "local">>

TranslateReturned == tr.pc = "done"

LineIndices == 0..(Len(tr.lines) - 1)

\* C13: in translate, when the detected source language is a code equal to the
\* normalized target language, neither translation provider is called, every
\* output line has its original text as translatedText, and the metadata has
\* skippedReason = source-matches-target.
C13_PassThrough ==
    (/\ tr.pc \notin {"idle", "detect"}
     /\ Truthy(tr.detected)
     /\ tr.detected = NormalizeLanguageCode(tr.targetLang)) =>
        /\ TranslateReturned
        /\ tr.geminiCalls = 0
        /\ tr.googleCalls = <<>>
        /\ Len(tr.data) = Len(tr.lines)
        /\ \A i \in 1..Len(tr.lines) : tr.data[i].translatedText = tr.lines[i].text
        /\ tr.meta.skippedReason = "source-matches-target"

C13_Witness ==
    /\ TranslateReturned
    /\ tr.targetLang = Str(<<" ", "E", "N", "_", "U", "S">>)
    /\ tr.detected = Str(<<"e", "n">>)
    /\ UseGemini(tr.settings)
    /\ Len(tr.lines) = 2
    /\ tr.data[2].translatedText = Text(1)

\* C14: in translate with the primary provider configured, a failure of the
\* primary provider (transport error, blocked or malformed response, wrong
\* number of lines) is followed by the secondary provider, with fallbackUsed =
\* true and the secondary provider named in the metadata; when the primary
\* provider succeeds the secondary is never called and fallbackUsed = false.
C14_PrimaryFallback ==
    (tr.pc # "idle" /\ UseGemini(tr.settings) /\ tr.primaryResponse # "none") =>
        /\ tr.geminiCalls = 1
        /\ tr.primaryResponse # "ok" =>
              /\ tr.pc \in {"pool", "done"}
              /\ tr.meta.fallbackUsed /\ tr.meta.provider = "google"
              /\ TranslateReturned =>
                    /\ {tr.googleCalls[j] : j \in 1..Len(tr.googleCalls)} = LineIndices
                    /\ \A i \in 1..Len(tr.lines) :
                          tr.data[i].translatedText
                              \in {GoogleTranslated(tr.lines[i].text), tr.lines[i].text}
        /\ tr.primaryResponse = "ok" =>
              /\ TranslateReturned
              /\ tr.googleCalls = <<>>
              /\ ~tr.meta.fallbackUsed /\ tr.meta.provider = "gemini"
              /\ \A i \in 1..Len(tr.lines) :
                    tr.data[i].translatedText = GeminiTranslated(i - 1)

C14_Witness ==
    /\ TranslateReturned
    /\ tr.primaryResponse = "long"
    /\ Len(tr.lines) = 3
    /\ tr.meta.fallbackUsed
    /\ tr.data[3].translatedText = GoogleTranslated(Text(2))

\* C15: in the per-line path, a line whose provider call fails keeps its
\* original text as translatedText and the translation still returns; the
\* failedLines of the metadata are exactly the indices of the lines whose call
\* failed, the other lines carry the provider's translation.
C15_FailedLines ==
    /\ tr.pc = "pool" => tr.waiting # {} /\ tr.failedIndices \subseteq DOMAIN tr.translatedTexts
    /\ (TranslateReturned /\ tr.workers > 0) =>
          /\ Len(tr.data) = Len(tr.lines)
          /\ tr.meta.failedLines \subseteq LineIndices
          /\ \A i \in LineIndices :
                tr.data[i + 1].translatedText =
                    IF i \in tr.meta.failedLines THEN tr.lines[i + 1].text
                    ELSE GoogleTranslated(tr.lines[i + 1].text)

C15_Witness ==
    /\ TranslateReturned
    /\ Len(tr.lines) = MaxLines
    /\ tr.meta.failedLines = {1, MaxLines - 1}
    /\ tr.data[1].translatedText = GoogleTranslated(Text(0))

LineRomanized(line) ==
    \/ Truthy(line.romanizedText)
    \/ /\ line.syllabus # Null
       /\ \E j \in 1..Len(line.syllabus.syllables) :
             Truthy(line.syllabus.syllables[j].romanizedText)

\* C16: romanize answers with provider = prebuilt, without a provider call,
\* only for a document that carries a romanization on every line; a document
\* with a romanization on some lines only goes to the romanization provider.
C16_PrebuiltEndToEnd ==
    (rom.pc # "idle" /\ rom.meta.provider = "prebuilt") =>
        \A i \in 1..Len(rom.lines) : LineRomanized(rom.lines[i])

\* The answer has, on every line, a romanizedText and, where the line has
\* syllables, a romanizedText for each of them.
CompleteAnswer(lines, result) ==
    \A i \in 1..Len(lines) :
        /\ result[i] # Null
        /\ Truthy(result[i].romanizedText)
        /\ lines[i].syllabus # Null =>
              /\ result[i].syllabus # Null
              /\ Len(result[i].syllabus.syllables) = Len(lines[i].syllabus.syllables)

\* The answer says what the input says: on every line the romanized text is
\* the text of the line, and every syllable's romanized text is the text of
\* the syllable.
OutputEqualsInput(lines, result) ==
    \A i \in 1..Len(lines) :
        /\ SameText(result[i].romanizedText, lines[i].text)
        /\ lines[i].syllabus # Null =>
              \A j \in 1..Len(lines[i].syllabus.syllables) :
                  SameText(result[i].syllabus.syllables[j].romanizedText,
                           lines[i].syllabus.syllables[j].text)

\* C17: in romanize, the fallback provider is called exactly when the answer of
\* the primary provider equals the input on every line (line text and every
\* syllable) and a fallback provider is configured; the result is then the
\* fallback's with fallbackUsed = true, else the primary's with fallbackUsed =
\* false (stated for answers that carry every romanization field).
C17_FallbackIffNullEffect ==
    (rom.pc \in {"fallback", "done", "rejected"} /\ rom.googleCalls = 1
        /\ CompleteAnswer(rom.lines, rom.googleResult)) =>
        LET fallback == /\ OutputEqualsInput(rom.lines, rom.googleResult)
                        /\ Truthy(rom.settings.geminiApiKey)
        IN  /\ rom.geminiCalls = (IF fallback THEN 1 ELSE 0)
            /\ rom.meta.fallbackUsed = fallback
            /\ rom.pc = "done" =>
                  rom.data = (IF fallback THEN GeminiRomanized(rom.lines)
                              ELSE rom.googleResult)

\* The lines of the document that precede line i and are the first of their
\* content (text and chunk structure) among the lines that are not Latin.
SameContent(a, b) == a.text = b.text /\ a.chunk = b.chunk

NonLatin(input) == {j \in 1..Len(input) : ~IsPurelyLatinScript(input[j].text)}

\* The slots of a document, counted from its lines alone: firsts are the
\* lines that are the first of their content among the lines that are not
\* Latin, and the slot of a line is the number of distinct contents that occur
\* before the first occurrence of its own.
Dedup(input) ==
    LET nonLatin == NonLatin(input)
        first == [i \in nonLatin |->
                     CHOOSE j \in nonLatin :
                         /\ SameContent(input[j], input[i])
                         /\ \A m \in nonLatin :
                               SameContent(input[m], input[i]) => j <= m]
        firsts == {j \in nonLatin : first[j] = j}
    IN  [firsts |-> firsts,
         slot |-> [i \in nonLatin |-> Cardinality({j \in firsts : j < first[i]})]]

FirstOccurrences(input) == Dedup(input).firsts

SlotOf(input) == Dedup(input).slot

ResponseLines(g) ==
    IF g.finalResponse = Null THEN <<>> ELSE g.finalResponse.romanized_lyrics

C19_Dedup ==
    gem.pc # "idle" =>
        LET input == gem.structuredInput
            dedup == Dedup(input)
            firsts == dedup.firsts
            slots == dedup.slot
        IN  /\ Len(gem.lyricsForApi) = Cardinality(firsts)
            /\ \A j \in firsts :
                  LET apiLine == gem.lyricsForApi[slots[j] + 1]
                  IN  /\ apiLine.text = input[j].text
                      /\ apiLine.chunk = input[j].chunk
                      /\ apiLine.original_line_index = slots[j]
            /\ Len(gem.reconstructionPlan) = Len(input)
            /\ \A i \in NonLatin(input) :
                  /\ gem.reconstructionPlan[i].originalIndex = i - 1
                  /\ gem.reconstructionPlan[i].type = "api"
                  /\ gem.reconstructionPlan[i].apiIndex = slots[i]
            /\ gem.pc = "done" =>
                  \A i, j \in NonLatin(input) :
                      slots[i] = slots[j] =>
                          /\ gem.output[i - 1].text = gem.output[j - 1].text
                          /\ gem.output[i - 1].chunk = gem.output[j - 1].chunk

\* Four lines, none of them Latin, the second and the fourth identical: three
\* slots, and the same romanization at both positions.
C19_Witness ==
    /\ gem.pc = "done"
    /\ gem.calls >= 1
    /\ Len(gem.structuredInput) = 4
    /\ NonLatin(gem.structuredInput) = 1..4
    /\ FirstOccurrences(gem.structuredInput) = {1, 2, 3}
    /\ SameContent(gem.structuredInput[2], gem.structuredInput[4])
    /\ Len(gem.lyricsForApi) = 3
    /\ gem.output[1].text = gem.output[3].text
    /\ gem.output[1].text # Null
    /\ \E i \in 1..4 : gem.structuredInput[i].chunk # Null

\* C20: for a document whose lines are all purely Latin, romanize makes no
\* call of the transformer and returns the document unchanged: each line with
\* the text and the chunks of the input line.
C20_AllLatinUnchanged ==
    (gem.pc # "idle" /\ NonLatin(gem.structuredInput) = {}) =>
        /\ gem.pc = "done"
        /\ gem.calls = 0
        /\ DOMAIN gem.output = 0..(Len(gem.structuredInput) - 1)
        /\ \A i \in 1..Len(gem.structuredInput) :
              /\ gem.output[i - 1].text = gem.structuredInput[i].text
              /\ gem.output[i - 1].chunk = gem.structuredInput[i].chunk

Terminal(g) == g.pc \in {"done", "failed"}

\* The attempts of the conversation g that failed the validation with the
\* same first error as the last one, counted back from the last one.
RECURSIVE SameErrorRun(_, _)
SameErrorRun(outcomes, n) ==
    IF n = 0 \/ outcomes[n].kind # "invalid"
       \/ outcomes[n].error # outcomes[Len(outcomes)].error
    THEN 0
    ELSE 1 + SameErrorRun(outcomes, n - 1)

\* C21: whatever the transformer answers, one conversation makes at most
\* MAX_RETRIES calls (every settled call and the pending one counted, a
\* conversation reset included) and ends: it returns a document or fails.
C21_BoundedTermination ==
    /\ [](gem.pc # "idle" =>
            /\ gem.calls <= MAX_RETRIES
            /\ gem.calls = Len(gem.outcomes) + (IF gem.pc = "call" THEN 1 ELSE 0))
    /\ (gem.pc = "call" ~> Terminal(gem))

\* A conversation that was reset after its third attempt has failed with its
\* MAX_RETRIES-th call.
C21_Witness ==
    /\ gem.pc = "failed"
    /\ gem.calls = MAX_RETRIES
    /\ Len(gem.outcomes) = MAX_RETRIES
    /\ SameErrorRun(SubSeq(gem.outcomes, 1, 3), 3) = 3

\* What the validation asks of a response, stated on the response itself: one
\* line per structured line, each with its index, a text, and chunks exactly
\* when the structured line has chunks, as many as it has.
FullyValid(lyricsForApi, response) ==
    /\ HasRomanizedLyrics(response)
    /\ Len(response.romanized_lyrics) = Len(lyricsForApi)
    /\ \A i \in 1..Len(lyricsForApi) :
          LET line == response.romanized_lyrics[i]
          IN  /\ line.original_line_index = i - 1
              /\ line.text # Null
              /\ (line.chunk # Null) = (lyricsForApi[i].chunk # Null)
              /\ line.chunk # Null =>
                    Len(line.chunk.items) = Len(lyricsForApi[i].chunk.items)

\* C22: romanize returns a document only when the response it reconstructs
\* from, raw or merged from a selective fix, passed the full validation
\* against the structured lines; a response that fails the validation is
\* never reconstructed.
C22_OnlyValidated ==
    /\ gem.pc \in {"call", "failed"} => gem.output = Null /\ gem.finalResponse = Null
    /\ (gem.pc = "done" /\ gem.calls > 0) =>
          /\ FullyValid(gem.lyricsForApi, gem.finalResponse)
          /\ gem.outcomes[Len(gem.outcomes)].kind = "valid"
          /\ \A n \in 1..(Len(gem.outcomes) - 1) : gem.outcomes[n].kind # "valid"
          /\ \A i \in 1..Len(gem.structuredInput) :
                gem.output[i - 1] = gem.finalResponse.romanized_lyrics[i]

\* A document was returned from a selective fix merged into the response of
\* the first attempt, which had failed the validation.
C22_Witness ==
    /\ gem.pc = "done"
    /\ gem.isSelectiveFix
    /\ Len(gem.lyricsForApi) >= 3
    /\ gem.outcomes[1].kind = "invalid"
    /\ gem.lastValidResponse # gem.finalResponse
    /\ FullyValid(gem.lyricsForApi, gem.finalResponse)

\* The attempts of the conversation that failed the validation.
Invalid(outcomes) == {n \in 1..Len(outcomes) : outcomes[n].kind = "invalid"}

\* C23: when three consecutive attempts have failed the validation with the
\* same first error and an attempt remains, the next call is sent with the
\* initial prompt alone and the full schema; when the first error of an
\* attempt differs from the error tracked before, the same-error counter is 1.
C23_ErrorRepeatReset ==
    gem.pc \in {"call", "failed"} =>
        LET outcomes == gem.outcomes
            n == Len(outcomes)
            earlier == Invalid(outcomes) \ {n}
        IN  /\ (gem.pc = "call" /\ n >= 3 /\ SameErrorRun(outcomes, n) = 3) =>
                  /\ gem.currentContents = <<"initial">>
                  /\ ~gem.isSelectiveFix
            /\ (/\ n \in Invalid(outcomes)
                /\ \A m \in earlier :
                      (\A k \in earlier : k <= m) => outcomes[m].error # outcomes[n].error)
                  => gem.sameErrorCount = 1

\* After a line count error and three attempts with the same missing text the
\* fifth call is pending with the initial prompt alone.
C23_Witness ==
    /\ gem.pc = "call"
    /\ Len(gem.outcomes) = 4
    /\ SameErrorRun(gem.outcomes, 4) = 3
    /\ gem.outcomes[1].kind = "invalid"
    /\ gem.outcomes[1].error # gem.outcomes[2].error
    /\ gem.currentContents = <<"initial">>
    /\ ~gem.isSelectiveFix

\* The lines of a response that fail one of the checks made of a line.
FailingLines(lyricsForApi, response) ==
    IF ~HasRomanizedLyrics(response) THEN {}
    ELSE {i \in 1..Min(Len(response.romanized_lyrics), Len(lyricsForApi)) :
             LET line == response.romanized_lyrics[i]
             IN  \/ line.original_line_index # i - 1
                 \/ line.text = Null
                 \/ (line.chunk # Null) # (lyricsForApi[i].chunk # Null)
                 \/ /\ line.chunk # Null
                    /\ Len(line.chunk.items) # Len(lyricsForApi[i].chunk.items)}

\* The last attempt failed the validation and a repair request was appended
\* to the conversation.
RepairRequested(g) ==
    /\ g.pc = "call"
    /\ Len(g.outcomes) > 0
    /\ g.outcomes[Len(g.outcomes)].kind = "invalid"
    /\ Len(g.currentContents) > 1

\* C24: after a failed validation the repair request is a selective fix
\* exactly when at least one line fails and the failing lines are fewer than
\* 80% of the structured lines; otherwise, at exactly 80% and at 100% too, it
\* is a full retry.
C24_SelectiveThreshold ==
    RepairRequested(gem) =>
        LET failing == Cardinality(FailingLines(gem.lyricsForApi,
                           gem.outcomes[Len(gem.outcomes)].response))
            lines == Len(gem.lyricsForApi)
            request == gem.currentContents[Len(gem.currentContents)]
        IN  /\ request \in {"selective", "full"}
            /\ request = "selective" <=> (failing >= 1 /\ failing * 100 < 80 * lines)

\* Four of five lines failed, exactly 80%: a full retry is requested.
C24_Witness ==
    /\ RepairRequested(gem)
    /\ Len(gem.lyricsForApi) = 5
    /\ Cardinality(FailingLines(gem.lyricsForApi,
                                gem.outcomes[Len(gem.outcomes)].response)) = 4
    /\ gem.currentContents[Len(gem.currentContents)] = "full"

\* C25: when the attempt MAX_RETRIES fails the validation, romanize fails
\* with the complete list of the validation errors of that attempt: an entry
\* for every failing line, or the error of the response as a whole; no
\* document is returned and no call follows.
C25_FinalErrors ==
    (/\ gem.pc # "idle"
     /\ Len(gem.outcomes) = MAX_RETRIES
     /\ gem.outcomes[MAX_RETRIES].kind = "invalid") =>
        LET response == gem.outcomes[MAX_RETRIES].response
            failing == FailingLines(gem.lyricsForApi, response)
        IN  /\ gem.pc = "failed"
            /\ gem.output = Null
            /\ gem.calls = MAX_RETRIES
            /\ gem.failure # <<>>
            /\ gem.failure[1] = gem.outcomes[MAX_RETRIES].error
            /\ Len(response.romanized_lyrics) = Len(gem.lyricsForApi) =>
                  {gem.failure[k].line : k \in 1..Len(gem.failure)}
                      = {i - 1 : i \in failing}

\* The fifth attempt failed on several lines.
C25_Witness ==
    /\ gem.pc = "failed"
    /\ Len(gem.outcomes) = MAX_RETRIES
    /\ gem.outcomes[MAX_RETRIES].kind = "invalid"
    /\ Len(gem.failure) >= 3

\* The conversation of g was reset by its last attempt: the attempt failed
\* the validation and the pending call carries the initial prompt alone.
ResetByLastAttempt(g) ==
    /\ g.pc = "call"
    /\ Len(g.outcomes) > 0
    /\ g.outcomes[Len(g.outcomes)].kind = "invalid"
    /\ g.currentContents = <<"initial">>

\* C30: the conversation is reset only after three consecutive attempts that
\* each failed the validation with the same first error; an attempt that ends
\* in a JSON parse failure or a transport error in between keeps equal errors
\* from adding up to a reset.
C30_ResetOnlyAfterConsecutive ==
    ResetByLastAttempt(gem) => SameErrorRun(gem.outcomes, Len(gem.outcomes)) >= 3

\* C26: an invocation of fetchAndDisplayLyrics applies a result (displayLyrics,
\* displaySongNotFound) only if the media identifier never changed to another
\* one during its awaits: an invocation that was superseded by a different
\* media identifier while it waited never renders.
C26_SupersededNeverRenders ==
    \A i \in DOMAIN page.invocations :
        page.invocations[i].outcome \in {"displayed", "notFound"} =>
            ~page.invocations[i].superseded

\* C28: every I/O failure of an operation of the store (get, set, delete,
\* getAll, clear, estimateSize) fails the operation towards its caller: the
\* promise of an operation whose open or request failed is never fulfilled.
C28_FailurePropagates ==
    \A i \in DOMAIN store.ops :
        store.ops[i].ioFailed => store.ops[i].promise # "fulfilled"

\* An entry that an earlier session wrote: the lyrics of version 0, or a
\* translation generated at 0 (this session stamps what it writes with its
\* clock, which starts at 1).
WrittenBefore(entry) ==
    IF "translatedLyrics" \in DOMAIN entry
    THEN entry.translatedLyrics.generatedAt = 0
    ELSE entry.version = 0

ResetSucceeded ==
    \E i \in DOMAIN handler.msgs :
        /\ handler.msgs[i].type = "RESET_CACHE"
        /\ handler.msgs[i].responses # <<>>
        /\ handler.msgs[i].responses[1].success

\* C27: once RESET_CACHE has answered success, the memory cache, the lyrics
\* collection and the translation collection hold no entry from before the
\* reset (a collection is looked at once the clear request issued on it is no
\* longer pending), so that a later getOrFetch cannot be served from them.
C27_ResetLeavesNothing ==
    ResetSucceeded =>
        /\ \A k \in AllKeys : cache[k] = Null \/ ~WrittenBefore(cache[k])
        /\ ~HasPendingWrite("lyricsDB") =>
              \A k \in LyricsKeys : lyricsDB[k] = Null \/ ~WrittenBefore(lyricsDB[k])
        /\ ~HasPendingWrite("translationsDB") =>
              \A k \in TransKeys :
                  translationsDB[k] = Null \/ ~WrittenBefore(translationsDB[k])

\* C29: every command gets exactly one response (never more than one, and one
\* once its handler is through), a failure response carries success = false
\* and a string in error, and nothing is thrown out of the handler.
C29_OneResponse ==
    /\ \A i \in DOMAIN handler.msgs :
          LET m == handler.msgs[i]
          IN  /\ Len(m.responses) <= 1
              /\ m.pc = "done" => Len(m.responses) = 1
              /\ ~m.escaped
              /\ \A r \in DOMAIN m.responses :
                    ~m.responses[r].success => m.responses[r].error.typeof = "string"
    /\ \A c \in Callers :
          /\ Len(handler.replies[c]) <= 1
          /\ \A r \in DOMAIN handler.replies[c] :
                ~handler.replies[c][r].success =>
                    handler.replies[c][r].error.typeof = "string"

\* The request that ends the accumulated conversation.
LastRequest(g) == g.currentContents[Len(g.currentContents)]

\* C31: in every attempt after the first the transformer is called with the
\* selective schema (and its answer is merged) if and only if the request that
\* ends the conversation is a selective-fix request; after a full-retry
\* request, a corrected-JSON request or a fresh initial prompt the full schema
\* is used.
C31_SchemaFollowsRequest ==
    (gem.pc = "call" /\ gem.attempt > 1) =>
        (gem.isSelectiveFix <=> LastRequest(gem) = "selective")

\* The base the merge was called on, as it was before the call.
BaseBefore == Deref(gem.before, gem.lastValidResponse)

HasBase == gem.lastValidResponse # 0 /\ HasRomanizedLyrics(BaseBefore)

\* The fixed lines whose index is a position of the base.
FixesOf(fixedLines, i) ==
    {k \in 1..Len(fixedLines) : fixedLines[k].original_line_index = i - 1}

ChunksInOrder(line) ==
    LET chunks == line.chunk.items
        merged == NormalizeText(MergedChunkText(chunks))
        text == NormalizeText(Content(line.text))
    IN  /\ \A k \in 1..Len(chunks) :
              chunks[k].text # Null /\ Trim(Content(chunks[k].text)) # <<>>
        /\ ~(Len(chunks) > 1
             /\ Cardinality({k \in 1..Len(chunks) :
                    chunks[k].text # Null /\ Trim(Content(chunks[k].text)) # <<>>}) = 1)
        /\ 5 * LevenshteinDistance(merged, text) <= Max(Len(merged), Len(text))

\* The conditions of a valid response.
Satisfies(originalLyricsForApi, response) ==
    /\ HasRomanizedLyrics(response)
    /\ Len(response.romanized_lyrics) = Len(originalLyricsForApi)
    /\ \A i \in 1..Len(originalLyricsForApi) :
          LET line == response.romanized_lyrics[i]
              original == originalLyricsForApi[i]
          IN  /\ line.original_line_index = i - 1
              /\ line.text # Null
              /\ (line.chunk # Null) <=> HasChunk(original)
              /\ HasChunk(original) =>
                    /\ Len(line.chunk.items) = Len(original.chunk.items)
                    /\ ChunksInOrder(line)

\* C33: validate answers isValid exactly for the responses that have the
\* lines array with one line per structured line, every index equal to its
\* position, every text a string, a chunk array exactly on the lines whose
\* input has chunks, and there as many chunks as the input, none empty, not
\* all text in one chunk of several, and chunk texts within 20% of the line
\* text (20% itself is accepted).
C33_ValidIffSatisfies ==
    gem.pc = "validated" =>
        (gem.validationResult.isValid
            <=> Satisfies(gem.originalLyricsForApi, gem.geminiResponse))

\* The chunks differ from the line text by one character of five: accepted.
C33_Witness ==
    /\ gem.pc = "validated"
    /\ gem.validationResult.isValid
    /\ \E i \in 1..Len(gem.originalLyricsForApi) :
          LET line == gem.geminiResponse.romanized_lyrics[i]
          IN  /\ line.chunk # Null
              /\ 5 * LevenshteinDistance(NormalizeText(MergedChunkText(line.chunk.items)),
                                         NormalizeText(Content(line.text))) = 5

\* translateWithGoogle was started for the document of tr.
PoolStarted == tr.pc \in {"pool", "done"} /\ tr.workers > 0

\* C34: the pool of translateWithGoogle over N lines has min(5, max(1, N))
\* workers; never more calls of the provider are outstanding than there are
\* workers; every call is for an index 0..N-1 and no index is called twice;
\* the pool is through exactly when every line has settled, and then every
\* index was called once.
C34_WorkerPool ==
    PoolStarted =>
        LET n == Len(tr.lines)
            calls == tr.googleCalls
            settled == DOMAIN tr.translatedTexts
        IN  /\ tr.workers = (IF n = 0 THEN 1 ELSE IF n < 5 THEN n ELSE 5)
            /\ tr.waiting = {calls[k] : k \in 1..Len(calls)} \ settled
            /\ Cardinality(tr.waiting) <= tr.workers
            /\ \A k \in 1..Len(calls) : calls[k] \in 0..(n - 1)
            /\ \A j, k \in 1..Len(calls) : j # k => calls[j] # calls[k]
            /\ tr.pc = "done" <=> settled = 0..(n - 1)
            /\ tr.pc = "done" => {calls[k] : k \in 1..Len(calls)} = 0..(n - 1)

\* Six lines went through five workers, and a line that was called later
\* settled while an earlier one was still outstanding.
C34_Witness ==
    /\ PoolStarted
    /\ Len(tr.lines) = 6
    /\ tr.workers = 5
    /\ 5 \in DOMAIN tr.translatedTexts
    /\ 1 \in tr.waiting

\* What a line of the combined lyrics is without what the combination may add.
Stripped(line) ==
    [line EXCEPT !.translatedText = Null, !.romanizedText = Null,
                 !.syllabus = IF @ = Null THEN Null
                              ELSE Array([k \in 1..Len(@.items) |->
                                            [@.items[k] EXCEPT !.romanizedText = Null]])]

TranslationsOf(lines, i) ==
    {lines[i].text, GoogleTranslated(lines[i].text), GeminiTranslated(i - 1)}

\* C35: every transformation keeps the length and the order of the lines: for
\* every order in which the workers' calls settle, after the pass-through, the
\* merge of the primary provider's texts and the combination on the page, line
\* i of the output is line i of the input with nothing but its own translation
\* and romanization added.
C35_LinesInOrder ==
    /\ TranslateReturned =>
          /\ Len(tr.data) = Len(tr.lines)
          /\ \A i \in 1..Len(tr.lines) :
                /\ tr.data[i].text = tr.lines[i].text
                /\ tr.data[i].translatedText \in TranslationsOf(tr.lines, i)
    /\ gem.pc = "combined" =>
          LET base == gem.baseLyrics.data
              out == gem.combinedLyrics.data
          IN  /\ gem.combinedLyrics.type = gem.baseLyrics.type
              /\ Len(out) = Len(base)
              /\ \A i \in 1..Len(base) :
                    /\ Stripped(out[i]) = base[i]
                    /\ out[i].translatedText \in {Null} \cup TranslationsOf(tr.lines, i)
                    /\ out[i].romanizedText \in {Null, [rom |-> i - 1]}
                    /\ out[i].syllabus # Null =>
                          \A k \in 1..Len(out[i].syllabus.items) :
                             out[i].syllabus.items[k].romanizedText
                                 \in {Null, base[i].syllabus.items[k].text,
                                      [rom |-> i - 1]}

C35_Witness ==
    /\ gem.pc = "combined"
    /\ gem.baseLyrics.type = "Word"
    /\ Len(tr.lines) = 4
    /\ tr.meta.failedLines = {2}
    /\ gem.combinedLyrics.data[4].translatedText = GoogleTranslated(Text(3))
    /\ gem.combinedLyrics.data[3].translatedText = Text(2)
    /\ gem.combinedLyrics.data[3].syllabus.items[1].romanizedText = [rom |-> 2]
    /\ gem.combinedLyrics.data[2].romanizedText = [rom |-> 1]
    /\ gem.combinedLyrics.data[4].romanizedText = Null

\* C36: an entry of the in-flight registry is deleted only by the settlement of
\* the operation it refers to: in no interleaving, forceReload calls included,
\* does the completion of one operation delete the entry of another operation
\* that is still pending.
C36_DeletedByOwnSettlement ==
    [][\A k \in AllKeys :
          (ongoingFetches[k] # 0 /\ ongoingFetches'[k] = 0) =>
              LET id == ongoingFetches[k]
              IN  ~Pending(IF k \in LyricsKeys THEN fetch'[id] ELSE trans'[id])]_vars

\* The command has replaced the lyrics of the local record it names.
Replaced(m) ==
    /\ m.type = "UPDATE_LOCAL_LYRICS"
    /\ m.pc = "done"
    /\ LocalGet(m.songId) # Null
    /\ LocalGet(m.songId).lyrics = UploadedDoc

\* C37: once UPDATE_LOCAL_LYRICS has replaced the lyrics of a local record, the
\* next getOrFetch without forceReload for a song that matches the record
\* returns the updated lyrics, under another version than the one the record
\* was served with before the update.
C37_UpdatedLyricsServed ==
    (/\ Answered
     /\ Replaced(handler.msgs[1])
     /\ LyricsSettled(1) /\ LyricsSource(1) = "local"
     /\ LyricsSettled(2) /\ ~call[2].force /\ call[2].song = call[1].song) =>
        /\ ~IsError(LyricsResult(2))
        /\ LyricsResult(2).lyrics = UploadedDoc
        /\ LyricsResult(2).version # LyricsResult(1).version

\* C38: when two invocations of fetchAndDisplayLyrics for one media identifier
\* overlap, what is finally rendered is the rendering of the one that started
\* later: the earlier invocation does not render after the later one has.
C38_LaterInvocationWins ==
    \A i, j \in DOMAIN page.invocations :
        (/\ i < j
         /\ page.invocations[i].currentSong = page.invocations[j].currentSong
         /\ page.invocations[j].outcome = "displayed") =>
            ~(page.display.kind = "lyrics" /\ page.display.by = i)

\* The response that was validated last before the pending call.
RECURSIVE LastValidated(_)
LastValidated(outcomes) ==
    IF outcomes = <<>> THEN Null
    ELSE IF outcomes[Len(outcomes)].kind = "invalid"
    THEN outcomes[Len(outcomes)].response
    ELSE LastValidated(SubSeq(outcomes, 1, Len(outcomes) - 1))

\* C39: selective fixes accumulate: a line that a selective fix of an earlier
\* attempt has replaced is still that fixed line in the merged response that
\* a later selective attempt of the conversation validates.
C39_FixesAccumulate ==
    [][(/\ gem.pc = "call" /\ gem.isSelectiveFix
        /\ Len(gem'.outcomes) = Len(gem.outcomes) + 1
        /\ gem'.outcomes[Len(gem'.outcomes)].kind = "invalid") =>
           LET first == gem.lastValidResponse.romanized_lyrics
               before == LastValidated(gem.outcomes).romanized_lyrics
               after == gem'.outcomes[Len(gem'.outcomes)].response.romanized_lyrics
           IN  \A i \in 1..Len(before) :
                  (i <= Len(first) /\ before[i] # first[i]) =>
                      i <= Len(after) /\ after[i] = before[i]]_vars

LocalWriters == {"UPLOAD_LOCAL_LYRICS", "UPDATE_LOCAL_LYRICS", "DELETE_LOCAL_LYRICS"}

CollectionWriters == LocalWriters \cup {"RESET_CACHE"}

\* The step is none of the two services.
NoServiceStep == call' = call /\ fetch' = fetch /\ trans' = trans

\* C40: the local-lyrics collection changes only by a write of
\* UPLOAD_LOCAL_LYRICS, UPDATE_LOCAL_LYRICS or DELETE_LOCAL_LYRICS, and only in
\* the record that command names; the other commands and the two services
\* leave every local record as it is, and GET_CACHED_SIZE and the read-only
\* commands change none of the three collections.
C40_LocalFrame ==
    [][/\ localLyricsDB' # localLyricsDB =>
             /\ handler.requests # <<>>
             /\ LET request == Head(handler.requests)
                IN  /\ request.store = "localLyricsDB"
                    /\ handler.msgs[request.by].type \in LocalWriters
                    /\ \A r \in localLyricsDB \cup localLyricsDB' :
                          r.songId # request.record.songId =>
                              (r \in localLyricsDB <=> r \in localLyricsDB')
       /\ (/\ NoServiceStep
           /\ \/ lyricsDB' # lyricsDB
              \/ translationsDB' # translationsDB
              \/ localLyricsDB' # localLyricsDB) =>
             /\ handler.requests # <<>>
             /\ handler.msgs[Head(handler.requests).by].type \in CollectionWriters]_vars

C40_Witness ==
    /\ handler.msgs # <<>>
    /\ handler.msgs[1].type = "RESET_CACHE"
    /\ handler.msgs[1].clears = [lyricsDB |-> "done", translationsDB |-> "done"]
    /\ handler.requests = <<>>
    /\ \A k \in LyricsKeys : lyricsDB[k] = Null
    /\ \E r \in localLyricsDB : r.songId = "L1"
    /\ LyricsSettled(1)
====
